---- MODULE Spec2Model ----
(***************************************************************************)
(* Model of @nulltype/modddel: the named asynchronous Mutex, the aggregate *)
(* instance registry, the replay engine and the Repository save/load       *)
(* protocol.  Every `await` of the source is a suspension point: the code  *)
(* between two awaits runs as one atomic action (single-threaded           *)
(* cooperative scheduling), and the order in which suspended calls are     *)
(* resumed is left open.                                                   *)
(***************************************************************************)
EXTENDS Integers, Sequences, FiniteSets, TLC

(* ------------------------------ bounds --------------------------------- *)
NumCallers == 3
MaxAcquires == 4

NumOps == 2
NumInst == 2
MaxRecorded == 2

MaxHistory == 3
MaxVersion == 4
MaxSnapshotVersion == 2

Callers == 1..NumCallers
Keys == {"test1", "test2"}

Ops == 1..NumOps
Insts == 1..NumInst
Ids == {"cart-1", "cart-2"}
AggName == "ShoppingCart"

VARIABLES
  locks,      \* Mutex.#locks: the set of keys currently held
  queue,      \* Mutex.#queue: per key, the FIFO of queued waiters
  caller,     \* the run() calls of the Mutex test: position, key, local copy
  counter,    \* the shared counter of the Mutex test, one per key
  runs,       \* history: number of critical sections finished per key
  arrived,    \* history: per key, the callers not yet granted, in call order
  op,         \* the Repository.save / Repository.load calls and their locals
  inst,       \* aggregatesData: the record of every created handle
  objs,       \* the state objects ({total}) the records and snapshots refer to
  events,     \* the event store: the stream events pushed by saveEvents
  snapshots,  \* the snapshot store: per aggregate id, the snapshot or none
  withSnapshot, \* whether the store given to the Repository has snapshots
  nRecorded,  \* the number of recordThat calls made so far
  replay,     \* one loadAggregate call: its arguments and what it returned
  publishedFails, \* whether a failing subscriber of 'eventsPublished' is set up
  handle,     \* the handle objects: their methods' closure and definition
  call,       \* the last call on a handle: what was called, and its outcome
  aggregateDefinitions, \* the definition directory: per name, the definition
  snapshotWrites \* the saveSnapshot calls of an asynchronous store in flight

\* the directory and the writes in flight
xvars == <<aggregateDefinitions, snapshotWrites>>

mvars == <<locks, queue, caller, counter, runs, arrived>>
rvars == <<op, inst, objs, events, snapshots, withSnapshot, nRecorded,
           replay, publishedFails, handle, call, xvars>>
vars == <<locks, queue, caller, counter, runs, arrived,
          op, inst, objs, events, snapshots, withSnapshot, nRecorded, replay,
          publishedFails, handle, call, xvars>>

(* ------------------------------ Mutex ---------------------------------- *)
\* Mutex.ts:26  `this.#locks.has(name)`
isLockedGlobal(lk, name) == lk # {}
isLocked(lk, name) == name \in lk

\* Mutex.ts:18  `this.#queue[name]?.shift()`: the waiter release hands over to
nextWaiterLast(q) == q[Len(q)]
nextWaiter(q) == Head(q)

\* Mutex.ts:17-23,33  the lock set after release(): the key is deleted, and the
\* resolve callback of the next waiter (if any) adds it again at once
locksAfterReleaseNoReAdd(lk, q, name) == lk \ {name}
locksAfterReleaseKeep(lk, q, name) == lk
locksAfterRelease(lk, q, name) ==
  IF q = <<>> THEN lk \ {name} ELSE (lk \ {name}) \cup {name}

(* ----------------------- records and events ---------------------------- *)
\* repository.spec.ts:83-87  initialState(): an empty cart, held here as the
\* total quantity of its items
initialState == 0
Quantities == {1}

\* aggregateData.ts:18-22  AggregateData, plus whether the handle has a record
NoRecord ==
  [created |-> FALSE, id |-> "none", version |-> 0, recordedEvents |-> <<>>,
   state |-> 0]

\* createInstanceDataRecorded is a record that starts with a pending event
createInstanceDataRecorded(id, ref) ==
  [created |-> TRUE, id |-> id, version |-> 0,
   recordedEvents |->
     <<[name |-> "ItemAdded", payload |-> 1, version |-> 1]>>,
   state |-> ref]
\* aggregateData.ts:60-73  createInstanceData(instance, state)
createInstanceData(id, ref) ==
  [created |-> TRUE, id |-> id, version |-> 0, recordedEvents |-> <<>>,
   state |-> ref]

\* recordEventStaleVersion pushes the event before it increments the version
recordEventStaleVersion(data, name, payload) ==
  [data EXCEPT !.version = @ + 1,
               !.recordedEvents =
                 Append(@, [name |-> name, payload |-> payload,
                            version |-> data.version])]
\* aggregateData.ts:100-106  recordEvent: version += 1, push the event
recordEvent(data, name, payload) ==
  [data EXCEPT !.version = @ + 1,
               !.recordedEvents =
                 Append(@, [name |-> name, payload |-> payload,
                            version |-> data.version + 1])]

\* aggregateData.ts:121-124  popRecordedEvents: what it returns and what it
\* leaves in the record
poppedKeepsBuffer(data) == [returned |-> data.recordedEvents, data |-> data]
popped(data) ==
  [returned |-> data.recordedEvents,
   data |-> [data EXCEPT !.recordedEvents = <<>>]]

\* applyHandlerSkipped leaves the state as it is
applyHandlerSkipped(heap, ref, event) == heap
\* repository.spec.ts:89-96  the ItemAdded handler: `items[id] += quantity`
applyHandler(heap, ref, event) == [heap EXCEPT ![ref] = @ + event.payload]

\* Mutex.ts:76-87  aggregateEventToStreamEvent
aggregateEventToStreamEvent(id, aggregateName, event) ==
  [aggregateId |-> id, aggregateType |-> aggregateName, name |-> event.name,
   payload |-> event.payload, version |-> event.version]

\* Mutex.ts:122-128  recordedEvents.map(...)
streamEventsOfReversed(id, aggregateName, recorded) ==
  [n \in 1..Len(recorded) |->
     aggregateEventToStreamEvent(id, aggregateName,
                                 recorded[Len(recorded) + 1 - n])]
streamEventsOf(id, aggregateName, recorded) ==
  [n \in 1..Len(recorded) |->
     aggregateEventToStreamEvent(id, aggregateName, recorded[n])]

\* Mutex.ts:171-179  the history events mapped back to aggregate events
aggregateEventsOf(history) ==
  [n \in 1..Len(history) |->
     [name |-> history[n].name, payload |-> history[n].payload,
      version |-> history[n].version]]

(* ------------------------------ utils ---------------------------------- *)
\* part_004:438-442  EventSorter.byVersion with toSorted (a stable sort)
RECURSIVE InsertByVersion(_, _)
InsertByVersion(sorted, e) ==
  IF sorted = <<>> THEN <<e>>
  ELSE IF sorted[Len(sorted)].version <= e.version THEN Append(sorted, e)
  ELSE Append(InsertByVersion(SubSeq(sorted, 1, Len(sorted) - 1), e),
              sorted[Len(sorted)])

\* SortByVersionKeepOrder is loadAggregate without the toSorted call
SortByVersionKeepOrder(seq) == seq
RECURSIVE SortByVersion(_)
SortByVersion(seq) ==
  IF seq = <<>> THEN <<>>
  ELSE InsertByVersion(SortByVersion(SubSeq(seq, 1, Len(seq) - 1)),
                       seq[Len(seq)])

\* part_004:444-458  areEventsContinous
areEventsContinousAlways(sortedEvents) == TRUE
areEventsContinous(sortedEvents) ==
  \/ Len(sortedEvents) < 2
  \/ \A n \in 2..Len(sortedEvents) :
       sortedEvents[n - 1].version = sortedEvents[n].version - 1

(* ------------------------- the test store ------------------------------ *)
Max(a, b) == IF a >= b THEN a ELSE b

NoSnapshot == [present |-> FALSE, version |-> 0, state |-> 0]

\* repository.spec.ts:28-33  the events of one aggregate, in push order
eventsOf(evs, name, id) ==
  SelectSeq(evs, LAMBDA e : e.aggregateType = name /\ e.aggregateId = id)

\* repository.spec.ts:26-37  getAggregateVersion
getAggregateVersion(evs, snaps, name, id) ==
  LET own == eventsOf(evs, name, id)
  IN Max(IF own = <<>> THEN 0 ELSE own[Len(own)].version,
         IF snaps[id].present THEN snaps[id].version ELSE 0)

\* repository.spec.ts:38-47  loadHistory
loadHistory(evs, name, id, sinceVersion) ==
  SortByVersion(SelectSeq(eventsOf(evs, name, id),
                          LAMBDA e : e.version >= sinceVersion))

\* repository.spec.ts:57-59  loadSnapshot
loadSnapshot(snaps, id) == snaps[id]

(* --------------------------- replay engine ----------------------------- *)
\* aggregateData.ts:174-196  the handler loop over the sorted new events;
\* `applied` lists the versions of the events whose handler was called, in
\* call order
\* applyEventsSkipMissing passes over an event that has no handler
RECURSIVE applyEventsSkipMissing(_, _, _, _, _)
applyEventsSkipMissing(handlers, evs, ref, heap, version) ==
  IF evs = <<>>
    THEN [err |-> "none", heap |-> heap, version |-> version,
          applied |-> <<>>]
  ELSE IF Head(evs).name \notin handlers
         THEN applyEventsSkipMissing(handlers, Tail(evs), ref, heap, version)
         ELSE LET r == applyEventsSkipMissing(
                         handlers, Tail(evs), ref,
                         applyHandler(heap, ref, Head(evs)),
                         Head(evs).version)
              IN [r EXCEPT !.applied = <<Head(evs).version>> \o @]
RECURSIVE applyEventsKeepVersion(_, _, _, _, _)
applyEventsKeepVersion(handlers, evs, ref, heap, version) ==
  IF evs = <<>>
    THEN [err |-> "none", heap |-> heap, version |-> version,
          applied |-> <<>>]
  ELSE IF Head(evs).name \notin handlers
         THEN [err |-> "HandlerNotDefined", heap |-> heap,
               version |-> version, applied |-> <<>>]
         ELSE LET r == applyEventsKeepVersion(
                         handlers, Tail(evs), ref,
                         applyHandler(heap, ref, Head(evs)), version)
              IN [r EXCEPT !.applied = <<Head(evs).version>> \o @]
RECURSIVE applyEvents(_, _, _, _, _)
applyEvents(handlers, evs, ref, heap, version) ==
  IF evs = <<>>
    THEN [err |-> "none", heap |-> heap, version |-> version,
          applied |-> <<>>]
  ELSE IF Head(evs).name \notin handlers
         THEN [err |-> "HandlerNotDefined", heap |-> heap,
               version |-> version, applied |-> <<>>]
         ELSE LET r == applyEvents(handlers, Tail(evs), ref,
                                   applyHandler(heap, ref, Head(evs)),
                                   Head(evs).version)
              IN [r EXCEPT !.applied = <<Head(evs).version>> \o @]

\* aggregateData.ts:156-158  the events a snapshot does not subsume
newerOrEqualSnapshot(evs, snapshot) ==
  IF snapshot.present
    THEN SelectSeq(evs, LAMBDA e : e.version >= snapshot.version)
    ELSE evs
newerThanSnapshot(evs, snapshot) ==
  IF snapshot.present
    THEN SelectSeq(evs, LAMBDA e : e.version > snapshot.version)
    ELSE evs

\* aggregateData.ts:166  `newEvents[0].version !== (snapshot?.version ?? 0) + 1`
startsAnywhere(newEvents, version0) == TRUE
startsRightAfter(newEvents, version0) == newEvents[1].version = version0 + 1

\* aggregateData.ts:127-199  loadAggregate: `handlers` is options.events (the
\* set of event names with a handler), hasEvents whether options.events is set,
\* ref the state object of the freshly created instance
loadAggregate(hasEvents, handlers, evs, snapshot, ref, heap) ==
  LET version0 == IF snapshot.present THEN snapshot.version ELSE 0
      state0 == IF snapshot.present THEN snapshot.state ELSE ref
      heap0 == [heap EXCEPT ![ref] = initialState]
      newEvents == SortByVersion(newerThanSnapshot(evs, snapshot))
      done == [err |-> "none", heap |-> heap0, version |-> version0,
               state |-> state0, applied |-> <<>>]
  IN IF evs = <<>> THEN done
     ELSE IF ~ hasEvents
       THEN [done EXCEPT !.err = "NoEventHandlers"]
     ELSE IF newEvents = <<>> THEN done
     ELSE IF ~ startsRightAfter(newEvents, version0)
       THEN [done EXCEPT !.err = "NotRightAfterSnapshot"]
     ELSE IF ~ areEventsContinous(newEvents)
       THEN [done EXCEPT !.err = "NotContinous"]
     ELSE LET r == applyEvents(handlers, newEvents, state0, heap0, version0)
          IN [err |-> r.err, heap |-> r.heap, version |-> r.version,
              state |-> state0, applied |-> r.applied]

\* repository.spec.ts:88-104  the events of ShoppingCart that have a handler
CartHandlers == {"ItemAdded"}

(* ----------------------------- Repository ------------------------------ *)
\* Mutex.ts:109-111  the template literal interpolates `aggregate.id`, the
\* method itself, so the key ends with the source text of the method
IdMethodSource == "id() { return id }"

\* saveKeyById is the key save would take had it called aggregate.id()
saveKeyById(aggregateName, id) == <<aggregateName, id>>
saveKey(aggregateName, id) == <<aggregateName, IdMethodSource>>

\* Mutex.ts:157  `${aggregateDefinition.name()}:${id}`
loadKey(aggregateName, id) == <<aggregateName, id>>

RepoKeys == {AggName} \X (Ids \cup {IdMethodSource})

\* Mutex.ts:130  `await this.emitter.emit('eventsRecorded', ...)`: the await
\* rethrows the failure of a subscriber
emitRejectsNever(outcome) == FALSE
emitRejects(outcome) == outcome = "fail"

\* Mutex.ts:144-147  the snapshot save hands to saveSnapshot: the version of
\* recordedEvents.at(-1) and the state object of the instance
snapshotOfFirst(recorded, state) ==
  [present |-> TRUE, version |-> recorded[1].version, state |-> state]
snapshotOf(recorded, state) ==
  [present |-> TRUE, version |-> recorded[Len(recorded)].version,
   state |-> state]

\* Mutex.ts:118-120  `if (!recordedEvents.length) return`
nothingRecordedNever(recorded) == FALSE
nothingRecorded(recorded) == Len(recorded) = 0

\* Mutex.ts:150  `this.emitter.emit('eventsPublished', ...)` is not awaited:
\* the promise it returns is dropped, and with it the failure of a subscriber
publishRejectsAwaited(outcome) == outcome = "fail"
publishRejects(outcome) == FALSE

\* Mutex.ts:137  `currentVersion !== recordedEvents[0].version - 1`
versionConflictNever(currentVersion, recorded) == FALSE
versionConflictOffByOne(currentVersion, recorded) ==
  currentVersion # recorded[1].version
versionConflict(currentVersion, recorded) ==
  currentVersion # recorded[1].version - 1

IdleOp ==
  [kind |-> "none", pc |-> "idle", inst |-> 0, id |-> "none",
   key |-> <<AggName, "none">>, granted |-> FALSE, overlapped |-> FALSE,
   recorded |-> <<>>, streamEvents |-> <<>>, cur |-> 0,
   snapshot |-> NoSnapshot, history |-> <<>>, result |-> "none",
   subFailed |-> FALSE, pubFailed |-> FALSE, savedEvents |-> FALSE, savedSnapshot |-> FALSE,
   recordedEmitted |-> FALSE, published |-> FALSE,
   recordedWith |-> <<>>, publishedWith |-> <<>>, returned |-> 0]

\* no loadAggregate call is being looked at
NotReplayed ==
  [err |-> "pending", heap |-> <<>>, version |-> 0, state |-> 0,
   applied |-> <<>>]
NoReplay ==
  [hasEvents |-> TRUE, history |-> <<>>, snapshot |-> NoSnapshot,
   result |-> NotReplayed]

\* aggregate.ts:60-71  a handle object: the definition it came from, the
\* create call whose closure variable `instance` its methods read (`cell`),
\* and whether the closure variable of its own create call has been set to
\* null; `recordedAll` and `poppedAll` are the history of its record
NoHandle ==
  [kind |-> "none", def |-> "none", cell |-> "null", nulled |-> FALSE,
   lastEvent |-> 0, recordedAll |-> <<>>, poppedAll |-> <<>>]
\* aggregateData.ts:24-30  aggregateDefinitions after the modules that define
\* the aggregates were evaluated: every name maps to its definition
DefinitionNames == {AggName, "OtherAggregate"}
NotRegistered == 0
Registered == [name \in DefinitionNames |-> 1]

NoCall == [name |-> "none", h |-> "none", err |-> "none"]

NoRepository ==
  /\ op = [o \in Ops |-> IdleOp]
  /\ inst = [i \in Insts |-> NoRecord]
  /\ objs = [i \in Insts |-> initialState]
  /\ events = <<>>
  /\ snapshots = [id \in Ids |-> NoSnapshot]
  /\ withSnapshot = FALSE
  /\ nRecorded = 0
  /\ replay = NoReplay
  /\ publishedFails = FALSE
  /\ handle = [h \in Insts |-> NoHandle]
  /\ call = NoCall
  /\ aggregateDefinitions = Registered
  /\ snapshotWrites = {}

(* ----------------------- Mutex test: run() ----------------------------- *)
NoKey == "none"

Without(seq, x) == SelectSeq(seq, LAMBDA y : y # x)

MutexInit ==
  /\ locks = {}
  /\ queue = [k \in Keys |-> <<>>]
  /\ caller = [p \in Callers |->
                 [pc |-> "idle", key |-> NoKey, cur |-> 0,
                  via |-> "direct", late |-> FALSE]]
  /\ counter = [k \in Keys |-> 1]
  /\ runs = [k \in Keys |-> 0]
  /\ arrived = [k \in Keys |-> <<>>]
  /\ NoRepository

\* a caller that was handed the key by release() and has not resumed yet
HandedOver(k) ==
  \E q \in Callers : /\ caller[q].key = k
                     /\ caller[q].pc = "granted"
                     /\ caller[q].via = "handoff"

\* the number of aqquire calls made so far: finished runs plus calls in flight
RECURSIVE SumOver(_, _)
SumOver(f, S) ==
  IF S = {} THEN 0
  ELSE LET x == CHOOSE y \in S : TRUE IN f[x] + SumOver(f, S \ {x})

Issued ==
  SumOver(runs, Keys) + Cardinality({p \in Callers : caller[p].pc # "idle"})

\* Mutex.spec.ts:14  `using lock = mutex.aqquire('test1')` (Mutex.ts:11-41)
Acquire(p, k) ==
  /\ caller[p].pc = "idle"
  /\ Issued < MaxAcquires
  /\ IF isLocked(locks, k)
       THEN /\ queue' = [queue EXCEPT ![k] = Append(@, p)]
            /\ arrived' = [arrived EXCEPT ![k] = Append(@, p)]
            /\ caller' = [caller EXCEPT ![p] =
                 [pc |-> "waiting", key |-> k, cur |-> 0,
                  via |-> "handoff",
                  late |-> HandedOver(k)]]
            /\ UNCHANGED locks
       ELSE /\ locks' = locks \cup {k}
            /\ caller' = [caller EXCEPT ![p] =
                 [pc |-> "granted", key |-> k, cur |-> 0,
                  via |-> "direct",
                  late |-> FALSE]]
            /\ UNCHANGED <<queue, arrived>>
  /\ UNCHANGED <<counter, runs>>
  /\ UNCHANGED rvars

\* Mutex.spec.ts:15-16  `await lock.promise; const currentCounter = counter`
Resume(p) ==
  /\ caller[p].pc = "granted"
  /\ caller' = [caller EXCEPT ![p].pc = "critical",
                              ![p].cur = counter[caller[p].key]]
  /\ UNCHANGED <<locks, queue, counter, runs, arrived>>
  /\ UNCHANGED rvars

\* Mutex.spec.ts:17-20  after `await Promise.resolve()`: the write, then the
\* end of the `using` scope disposes the lock, i.e. release() (Mutex.ts:16-24)
Finish(p) ==
  /\ caller[p].pc = "critical"
  /\ LET k == caller[p].key
         q == queue[k]
     IN /\ counter' = [counter EXCEPT ![k] = caller[p].cur + 1]
        /\ runs' = [runs EXCEPT ![k] = @ + 1]
        /\ locks' = locksAfterRelease(locks, q, k)
        /\ IF q = <<>>
             THEN /\ caller' = [caller EXCEPT ![p].pc = "idle"]
                  /\ UNCHANGED <<queue, arrived>>
             ELSE /\ queue' = [queue EXCEPT ![k] = Without(q, nextWaiter(q))]
                  /\ arrived' = [arrived EXCEPT
                                   ![k] = Without(@, nextWaiter(q))]
                  /\ caller' = [caller EXCEPT ![p].pc = "idle",
                                              ![nextWaiter(q)].pc = "granted"]
  /\ UNCHANGED rvars

MutexNext ==
  \/ \E p \in Callers, k \in Keys : Acquire(p, k)
  \/ \E p \in Callers : Resume(p)
  \/ \E p \in Callers : Finish(p)

MutexSpec == MutexInit /\ [][MutexNext]_vars

\* every caller that was granted the key resumes, and every critical section
\* ends (the `using` scope always reaches its end): the premise of liveness
MutexFairSpec ==
  /\ MutexSpec
  /\ \A p \in Callers : WF_vars(Resume(p)) /\ WF_vars(Finish(p))

\* the callers whose wait for key k has been resolved and who have not released
Holders(k) ==
  {p \in Callers : caller[p].key = k /\ caller[p].pc \in {"granted", "critical"}}

(* -------------------- Repository: save and load ------------------------ *)
\* the handles that exist or are reserved for the result of a load in flight
Used(i) ==
  \/ inst[i].created
  \/ \E o \in Ops : op[o].kind = "load" /\ op[o].inst = i

RepoInit ==
  /\ locks = {}
  /\ queue = [k \in RepoKeys |-> <<>>]
  /\ caller = [p \in Callers |->
                 [pc |-> "idle", key |-> NoKey, cur |-> 0,
                  via |-> "direct", late |-> FALSE]]
  /\ counter = [k \in Keys |-> 1]
  /\ runs = [k \in Keys |-> 0]
  /\ arrived = [k \in Keys |-> <<>>]
  /\ op = [o \in Ops |-> IdleOp]
  /\ inst = [i \in Insts |-> NoRecord]
  /\ objs = [i \in Insts |-> initialState]
  /\ events = <<>>
  /\ snapshots = [id \in Ids |-> NoSnapshot]
  /\ withSnapshot \in BOOLEAN
  /\ nRecorded = 0
  /\ replay = NoReplay
  /\ publishedFails = FALSE
  /\ handle = [h \in Insts |-> NoHandle]
  /\ call = NoCall
  /\ aggregateDefinitions = Registered
  /\ snapshotWrites = {}

\* Mutex.ts:11-41  aqquire(k) called by operation o, whose record becomes opn
AqquireFor(o, k, opn) ==
  IF isLocked(locks, k)
    THEN /\ queue' = [queue EXCEPT ![k] = Append(@, o)]
         /\ op' = [opn EXCEPT ![o].granted = FALSE]
         /\ UNCHANGED locks
    ELSE /\ locks' = locks \cup {k}
         /\ op' = [opn EXCEPT ![o].granted = TRUE]
         /\ UNCHANGED queue

\* Mutex.ts:109,157  `using lock = ...`: the lock is disposed when the scope
\* is left, by a return or by a throw, whatever the result of the call
disposesOnReturnOnly(result) == result \in {"ok", "noop"}
disposes(result) == TRUE

\* Mutex.ts:16-24,42-44  the `using` scope of operation o ends: release()
ReleaseBy(o, opn) ==
  LET k == op[o].key
      q == queue[k]
  IN IF ~ disposes(opn[o].result)
       THEN /\ op' = opn
            /\ UNCHANGED <<locks, queue>>
       ELSE /\ locks' = locksAfterRelease(locks, q, k)
            /\ IF q = <<>>
                 THEN /\ op' = opn
                      /\ UNCHANGED queue
                 ELSE /\ queue' =
                           [queue EXCEPT ![k] = Without(q, nextWaiter(q))]
                      /\ op' = [opn EXCEPT ![nextWaiter(q)].granted = TRUE]

\* history: some other operation is in flight when operation o is called
InFlight(o) == \E n \in Ops : n # o /\ op[n].pc \notin {"idle", "done"}

\* operations are numbered in the order in which they are called
NextToCall(o) ==
  /\ op[o].pc = "idle"
  /\ \A n \in Ops : n < o => op[n].pc # "idle"

\* aggregate.ts:25-74  definition.create(id): a new handle with a new record
Create(i, id) ==
  /\ ~ Used(i)
  /\ \A j \in Insts : j < i => Used(j)
  /\ inst' = [inst EXCEPT ![i] = createInstanceData(id, i)]
  /\ objs' = [objs EXCEPT ![i] = initialState]
  /\ UNCHANGED <<op, events, snapshots, withSnapshot, nRecorded>>
  /\ UNCHANGED <<mvars, replay, publishedFails, handle, call, xvars>>

\* aggregate.ts:35-55  an action calling recordThat('ItemAdded', {quantity}):
\* recordEvent, then the handler on the live state
RecordThat(i, quantity) ==
  /\ inst[i].created
  /\ nRecorded < MaxRecorded
  /\ nRecorded' = nRecorded + 1
  /\ LET data == recordEvent(inst[i], "ItemAdded", quantity)
     IN /\ inst' = [inst EXCEPT ![i] = data]
        /\ objs' = applyHandler(objs, inst[i].state,
                                data.recordedEvents[Len(data.recordedEvents)])
  /\ UNCHANGED <<op, events, snapshots, withSnapshot>>
  /\ UNCHANGED <<mvars, replay, publishedFails, handle, call, xvars>>

\* Mutex.ts:106-112  save(aggregate) up to `await lock.promise`
SaveCall(o, i) ==
  /\ NextToCall(o)
  /\ inst[i].created
  /\ LET k == saveKey(AggName, inst[i].id)
     IN AqquireFor(o, k, [op EXCEPT ![o].kind = "save", ![o].pc = "lock",
                                    ![o].overlapped = InFlight(o),
                                    ![o].inst = i, ![o].id = inst[i].id,
                                    ![o].key = k])
  /\ UNCHANGED <<inst, objs, events, snapshots, withSnapshot, nRecorded>>
  /\ UNCHANGED <<caller, counter, runs, arrived, replay, publishedFails,
                 handle, call, xvars>>

\* Mutex.ts:113-130  the lock is granted: pop, map, emit 'eventsRecorded'
SaveEnter(o) ==
  /\ op[o].kind = "save" /\ op[o].pc = "lock" /\ op[o].granted
  /\ LET i == op[o].inst
         recorded == popped(inst[i]).returned
     IN /\ inst' = [inst EXCEPT ![i] = popped(inst[i]).data]
        /\ IF nothingRecorded(recorded)
             THEN /\ ReleaseBy(o, [op EXCEPT ![o].pc = "done",
                                             ![o].result = "noop"])
             ELSE /\ op' = [op EXCEPT
                       ![o].pc = "recorded",
                       ![o].recorded = recorded,
                       ![o].streamEvents =
                          streamEventsOf(op[o].id, AggName, recorded),
                       ![o].recordedWith =
                          streamEventsOf(op[o].id, AggName, recorded),
                       ![o].recordedEmitted = TRUE]
                  /\ UNCHANGED <<locks, queue>>
  /\ UNCHANGED <<objs, events, snapshots, withSnapshot, nRecorded>>
  /\ UNCHANGED <<caller, counter, runs, arrived, replay, publishedFails,
                 handle, call, xvars>>

\* Mutex.ts:130-135  the subscribers of 'eventsRecorded' have run (outcome);
\* on success getAggregateVersion is called
SaveRecorded(o, outcome) ==
  /\ op[o].kind = "save" /\ op[o].pc = "recorded"
  /\ IF emitRejects(outcome)
       THEN ReleaseBy(o, [op EXCEPT ![o].pc = "done",
                                    ![o].subFailed = (outcome = "fail"),
                                    ![o].result = "SubscriberError"])
       ELSE /\ op' = [op EXCEPT
                 ![o].pc = "versioned",
                 ![o].subFailed = (outcome = "fail"),
                 ![o].cur = getAggregateVersion(events, snapshots, AggName,
                                                op[o].id)]
            /\ UNCHANGED <<locks, queue>>
  /\ UNCHANGED <<inst, objs, events, snapshots, withSnapshot, nRecorded>>
  /\ UNCHANGED <<caller, counter, runs, arrived, replay, publishedFails,
                 handle, call, xvars>>

\* Mutex.ts:137-141  the optimistic concurrency check, then saveEvents
SaveChecked(o) ==
  /\ op[o].kind = "save" /\ op[o].pc = "versioned"
  /\ IF versionConflict(op[o].cur, op[o].recorded)
       THEN /\ ReleaseBy(o, [op EXCEPT ![o].pc = "done",
                                       ![o].result = "ConcurrencyError"])
            /\ UNCHANGED events
       ELSE /\ events' = events \o op[o].streamEvents
            /\ op' = [op EXCEPT ![o].pc = "saving", ![o].savedEvents = TRUE]
            /\ UNCHANGED <<locks, queue>>
  /\ UNCHANGED <<inst, objs, snapshots, withSnapshot, nRecorded>>
  /\ UNCHANGED <<caller, counter, runs, arrived, replay, publishedFails,
                 handle, call, xvars>>

\* Mutex.ts:143-151  saveEvents has resolved: saveSnapshot, emit
\* 'eventsPublished' (outcome is what its subscribers will do: they fail only
\* where a failing one has been set up), return
SaveFinish(o, outcome) ==
  /\ op[o].kind = "save" /\ op[o].pc = "saving"
  /\ outcome = "fail" => publishedFails
  /\ LET i == op[o].inst
     IN /\ snapshots' =
             IF withSnapshot
               THEN [snapshots EXCEPT ![op[o].id] =
                       snapshotOf(op[o].recorded, inst[i].state)]
               ELSE snapshots
        /\ ReleaseBy(o, [op EXCEPT ![o].pc = "done",
                                   ![o].savedSnapshot = withSnapshot,
                                   ![o].published = TRUE,
                                   ![o].publishedWith = op[o].streamEvents,
                                   ![o].pubFailed = (outcome = "fail"),
                                   ![o].result =
                                      IF publishRejects(outcome)
                                        THEN "PublishError" ELSE "ok"])
  /\ UNCHANGED <<inst, objs, events, withSnapshot, nRecorded>>
  /\ UNCHANGED <<caller, counter, runs, arrived, replay, publishedFails,
                 handle, call, xvars>>

\* Mutex.ts:153-158  load(definition, id) up to `await lock.promise`; the
\* handle the call will return is i
LoadCall(o, id, i) ==
  /\ NextToCall(o)
  /\ ~ Used(i)
  /\ \A j \in Insts : j < i => Used(j)
  /\ LET k == loadKey(AggName, id)
     IN AqquireFor(o, k, [op EXCEPT ![o].kind = "load", ![o].pc = "lock",
                                    ![o].overlapped = InFlight(o),
                                    ![o].inst = i, ![o].id = id,
                                    ![o].key = k])
  /\ UNCHANGED <<inst, objs, events, snapshots, withSnapshot, nRecorded>>
  /\ UNCHANGED <<caller, counter, runs, arrived, replay, publishedFails,
                 handle, call, xvars>>

\* Mutex.ts:160-170  the lock is granted: loadSnapshot on a snapshot store,
\* else loadHistory since version 0
LoadEnter(o) ==
  /\ op[o].kind = "load" /\ op[o].pc = "lock" /\ op[o].granted
  /\ IF withSnapshot
       THEN op' = [op EXCEPT ![o].pc = "snapshot",
                             ![o].snapshot = loadSnapshot(snapshots, op[o].id)]
       ELSE op' = [op EXCEPT ![o].pc = "history",
                             ![o].history =
                               loadHistory(events, AggName, op[o].id, 0)]
  /\ UNCHANGED <<locks, queue, inst, objs, events, snapshots, withSnapshot, nRecorded>>
  /\ UNCHANGED <<caller, counter, runs, arrived, replay, publishedFails,
                 handle, call, xvars>>

\* Mutex.ts:162-170  loadSnapshot has resolved: loadHistory since its version
LoadSnapshot(o) ==
  /\ op[o].kind = "load" /\ op[o].pc = "snapshot"
  /\ op' = [op EXCEPT
       ![o].pc = "history",
       ![o].history =
          loadHistory(events, AggName, op[o].id,
                      IF op[o].snapshot.present
                        THEN op[o].snapshot.version ELSE 0)]
  /\ UNCHANGED <<locks, queue, inst, objs, events, snapshots, withSnapshot, nRecorded>>
  /\ UNCHANGED <<caller, counter, runs, arrived, replay, publishedFails,
                 handle, call, xvars>>

\* Mutex.ts:171-187  loadHistory has resolved: loadAggregate, return
LoadFinish(o) ==
  /\ op[o].kind = "load" /\ op[o].pc = "history"
  /\ LET i == op[o].inst
         r == loadAggregate(TRUE, CartHandlers,
                            aggregateEventsOf(op[o].history),
                            op[o].snapshot, i, objs)
     IN /\ objs' = r.heap
        /\ inst' = IF r.err = "none"
                     THEN [inst EXCEPT ![i] =
                             [createInstanceData(op[o].id, r.state)
                                EXCEPT !.version = r.version]]
                     ELSE inst
        /\ ReleaseBy(o, [op EXCEPT
                           ![o].pc = "done",
                           ![o].snapshot = NoSnapshot,
                           ![o].history = <<>>,
                           ![o].returned =
                              IF r.err = "none" THEN r.version ELSE 0,
                           ![o].result = IF r.err = "none" THEN "ok" ELSE r.err])
  /\ UNCHANGED <<events, snapshots, withSnapshot, nRecorded>>
  /\ UNCHANGED <<caller, counter, runs, arrived, replay, publishedFails,
                 handle, call, xvars>>

Next ==
  \/ \E i \in Insts, id \in Ids : Create(i, id)
  \/ \E i \in Insts, quantity \in Quantities : RecordThat(i, quantity)
  \/ \E o \in Ops, i \in Insts : SaveCall(o, i)
  \/ \E o \in Ops : SaveEnter(o)
  \/ \E o \in Ops, outcome \in {"ok", "fail"} : SaveRecorded(o, outcome)
  \/ \E o \in Ops : SaveChecked(o)
  \/ \E o \in Ops, outcome \in {"ok", "fail"} : SaveFinish(o, outcome)
  \/ \E o \in Ops, id \in Ids, i \in Insts : LoadCall(o, id, i)
  \/ \E o \in Ops : LoadEnter(o)
  \/ \E o \in Ops : LoadSnapshot(o)
  \/ \E o \in Ops : LoadFinish(o)

Spec == RepoInit /\ [][Next]_vars

\* the operations between the grant of their mutex key and its release
InCriticalSection(o) == op[o].granted /\ op[o].pc # "done"

(* ------------------------- claims: Mutex ------------------------------- *)

\* C1: at most one caller at a time is a granted holder of a key, and the
\* read / suspend / write-back critical section never loses an update: the
\* counter of a key is its initial value 1 plus the number of finished runs.
C1_MutualExclusion ==
  \A k \in Keys : /\ Cardinality(Holders(k)) <= 1
                  /\ counter[k] = 1 + runs[k]

C1_Witness ==
  \E k \in Keys : /\ runs[k] >= 2
                  /\ queue[k] # <<>>
                  /\ \E p \in Callers : caller[p].key = k /\ caller[p].pc = "critical"

\* C2: waiters are granted in the order in which they called aqquire: a caller
\* handed the key by release is the oldest caller not yet granted, and a caller
\* is granted directly only when nobody waits for or holds the key, so a call
\* made between a hand-off and the resumption of the waiter cannot overtake it.
C2_FifoHandOff ==
  [][\A p \in Callers :
       (caller[p].pc # "granted" /\ caller'[p].pc = "granted") =>
         LET k == caller'[p].key
         IN IF caller[p].pc = "waiting"
              THEN arrived[k] # <<>> /\ Head(arrived[k]) = p
              ELSE arrived[k] = <<>> /\ Holders(k) = {}]_vars

C2_Witness ==
  \E p \in Callers : /\ caller[p].pc = "critical"
                     /\ caller[p].via = "handoff"
                     /\ caller[p].late

\* C3: an aqquire of a key that no caller holds is granted at once, whatever
\* holders and waiters other keys have, and a release of one key changes
\* neither the lock, the queue nor the holders of any other key.
C3_KeyIndependence ==
  [][\A p \in Callers :
       /\ (/\ caller[p].pc = "idle"
           /\ caller'[p].pc # "idle"
           /\ Holders(caller'[p].key) = {}) => caller'[p].pc = "granted"
       /\ (caller[p].pc = "critical" /\ caller'[p].pc = "idle") =>
            \A k \in Keys \ {caller[p].key} :
              /\ (k \in locks') <=> (k \in locks)
              /\ queue'[k] = queue[k]
              /\ Holders(k)' = Holders(k)]_vars

C3_Witness ==
  \E p, q \in Callers :
    /\ caller[p].key = "test1" /\ caller[p].pc = "critical"
    /\ queue["test1"] # <<>>
    /\ caller[q].key = "test2" /\ caller[q].pc = "critical"
    /\ caller[q].via = "direct"

\* C4: provided every granted holder resumes and releases, every caller that
\* waits for a key is eventually granted that key.
C4_NoStarvation ==
  \A p \in Callers : (caller[p].pc = "waiting") ~> (caller[p].pc = "granted")

C4_Witness ==
  \E p, q \in Callers :
    /\ p # q
    /\ caller[p].pc = "granted" /\ caller[p].via = "handoff"
    /\ caller[q].pc = "waiting" /\ caller[q].key = caller[p].key

(* ----------------------- claims: Repository ---------------------------- *)
\* the versions of the events the store holds for one aggregate id
PersistedVersions(id) ==
  LET own == eventsOf(events, AggName, id)
  IN [n \in 1..Len(own) |-> own[n].version]

\* C5: through one Repository two operations on the same aggregate identity,
\* saves or loads, are never both between the grant of their mutex key and its
\* release.
C5_PerIdentitySerialized ==
  \A a, b \in Ops :
    (a # b /\ op[a].kind # "none" /\ op[b].kind # "none"
           /\ op[a].id = op[b].id)
      => ~ (InCriticalSection(a) /\ InCriticalSection(b))

\* C6: a save of an aggregate id on which no other operation is in flight is
\* granted its key at once, also while a save of another id of the same
\* aggregate type is suspended inside its critical section.
C6_DifferentIdsIndependent ==
  [][\A o \in Ops :
       (/\ op[o].pc = "idle"
        /\ op'[o].pc = "lock"
        /\ op'[o].kind = "save"
        /\ ~ \E n \in Ops : /\ n # o
                            /\ op[n].pc \notin {"idle", "done"}
                            /\ op[n].id = op'[o].id)
         => op'[o].granted]_vars

\* a finished save of a newly created instance: its first event has version 1
NewSave(o) ==
  /\ op[o].kind = "save" /\ op[o].pc = "done"
  /\ op[o].recorded # <<>>
  /\ op[o].recorded[1].version = 1

\* C7: of two saves of two newly created instances with the same id, each with
\* pending events, with no failing subscriber and no other writer of that id,
\* exactly one succeeds and the store holds exactly its events; the other
\* fails with ConcurrencyError and has persisted nothing.
C7_TwoNewSameId ==
  \A a, b \in Ops :
    (/\ a # b /\ NewSave(a) /\ NewSave(b)
     /\ op[a].id = op[b].id /\ op[a].inst # op[b].inst
     /\ ~ op[a].subFailed /\ ~ op[b].subFailed
     /\ \A n \in Ops \ {a, b} :
          ~ (op[n].kind = "save" /\ op[n].id = op[a].id /\ op[n].savedEvents))
      => \E w \in {a, b} :
           LET l == CHOOSE x \in {a, b} : x # w
           IN /\ op[w].result = "ok" /\ op[w].savedEvents
              /\ eventsOf(events, AggName, op[w].id) = op[w].streamEvents
              /\ op[l].result = "ConcurrencyError"
              /\ ~ op[l].savedEvents

C7_Witness ==
  \E a, b \in Ops :
    /\ a # b /\ NewSave(a) /\ NewSave(b)
    /\ op[a].id = op[b].id /\ op[a].inst # op[b].inst
    /\ op[b].overlapped
    /\ op[a].result = "ok" /\ op[b].result = "ConcurrencyError"

\* C8: at the optimistic concurrency check a save persists its events exactly
\* when the durable version of the aggregate is the version of its first
\* pending event minus 1; otherwise it fails with ConcurrencyError, and then
\* saveEvents and saveSnapshot are not invoked and nothing is published.
C8_OptimisticCheck ==
  /\ [][\A o \in Ops :
          (op[o].pc = "versioned" /\ op'[o].pc # "versioned") =>
            IF getAggregateVersion(events, snapshots, AggName, op[o].id)
                 = op[o].recorded[1].version - 1
              THEN /\ events' = events \o op[o].streamEvents
                   /\ op'[o].pc = "saving"
              ELSE /\ events' = events
                   /\ snapshots' = snapshots
                   /\ op'[o].pc = "done"
                   /\ op'[o].result = "ConcurrencyError"]_vars
  /\ [](\A o \in Ops :
          op[o].result = "ConcurrencyError" =>
            /\ ~ op[o].savedEvents
            /\ ~ op[o].savedSnapshot
            /\ ~ op[o].published)

C8_Witness ==
  \E a, b \in Ops :
    /\ op[a].result = "ok" /\ op[a].savedSnapshot
    /\ op[b].result = "ConcurrencyError"
    /\ op[b].cur = 1 /\ op[b].recorded[1].version = 1

\* C9: after any interleaving of saves the events persisted for each aggregate
\* id have the versions 1..n in push order: no gap and no duplicate.
C9_StreamContinuity ==
  \A id \in Ids :
    \A n \in 1..Len(PersistedVersions(id)) : PersistedVersions(id)[n] = n

C9_Witness ==
  \E a, b \in Ops :
    /\ a # b
    /\ op[a].savedEvents /\ op[b].savedEvents
    /\ op[a].id = op[b].id
    /\ Len(PersistedVersions(op[a].id)) >= 2

\* C10: when a subscriber of 'eventsRecorded' fails the save fails with that
\* failure: saveEvents is never invoked, no snapshot is persisted and
\* 'eventsPublished' is not emitted.
C10_BeforePersistAborts ==
  /\ [][\A o \in Ops :
          (~ op[o].subFailed /\ op'[o].subFailed) =>
            /\ events' = events
            /\ snapshots' = snapshots]_vars
  /\ [](\A o \in Ops :
          op[o].subFailed =>
            /\ op[o].pc = "done"
            /\ op[o].result = "SubscriberError"
            /\ ~ op[o].savedEvents
            /\ ~ op[o].savedSnapshot
            /\ ~ op[o].published)

C10_Witness ==
  \E o \in Ops :
    /\ op[o].subFailed /\ op[o].pc = "done"
    /\ withSnapshot
    /\ Len(op[o].recorded) >= 2
    /\ events = <<>>


\* the stream events of operation o are all in the store
Persisted(o) ==
  \A k \in 1..Len(op[o].streamEvents) :
    \E n \in 1..Len(events) : events[n] = op[o].streamEvents[k]

\* C11: a save whose 'eventsPublished' subscriber fails still completes
\* successfully for its caller, and the events it persisted stay persisted
C11_AfterPersistSwallowed ==
  \A o \in Ops :
    op[o].pubFailed =>
      /\ op[o].result = "ok"
      /\ op[o].savedEvents
      /\ Persisted(o)

C11_Witness ==
  \E o \in Ops : op[o].pc = "done" /\ op[o].pubFailed /\ op[o].published

(* ------------- Repository calls on a prepared store -------------------- *)
\* repository.spec.ts:284-291  a history pushed into the store directly; this
\* one has a gap, so that replaying it fails
GappedHistory ==
  streamEventsOf("cart-2", AggName,
                 <<[name |-> "ItemAdded", payload |-> 1, version |-> 1],
                   [name |-> "ItemAdded", payload |-> 1, version |-> 3]>>)

\* repository.spec.ts:284-291  another writer has persisted version 1 of
\* cart-1 already
TakenHistory ==
  streamEventsOf("cart-1", AggName,
                 <<[name |-> "ItemAdded", payload |-> 1, version |-> 1]>>)

\* repository.spec.ts:266-291  the arrange part of a test: cart-1
\* exists with one pending event; the store is empty, or holds the gapped
\* history of cart-2, or version 1 of cart-1
CallsInit ==
  /\ locks = {}
  /\ queue = [k \in RepoKeys |-> <<>>]
  /\ caller = [p \in Callers |->
                 [pc |-> "idle", key |-> NoKey, cur |-> 0,
                  via |-> "direct", late |-> FALSE]]
  /\ counter = [k \in Keys |-> 1]
  /\ runs = [k \in Keys |-> 0]
  /\ arrived = [k \in Keys |-> <<>>]
  /\ op = [o \in Ops |-> IdleOp]
  /\ inst = [i \in Insts |->
               IF i = 1
                 THEN recordEvent(createInstanceData("cart-1", 1),
                                  "ItemAdded", 1)
                 ELSE NoRecord]
  /\ objs = [i \in Insts |-> IF i = 1 THEN 1 ELSE initialState]
  /\ events \in {<<>>, GappedHistory, TakenHistory}
  /\ snapshots = [id \in Ids |-> NoSnapshot]
  /\ withSnapshot \in BOOLEAN
  /\ nRecorded = 1
  /\ replay = NoReplay
  /\ publishedFails = FALSE
  /\ handle = [h \in Insts |-> NoHandle]
  /\ call = NoCall
  /\ aggregateDefinitions = Registered
  /\ snapshotWrites = {}

\* Mutex.ts:132,141,163,171  a store call of operation o rejects: the error
\* leaves save or load through the `using` scope
StoreFails(o) ==
  /\ op[o].pc \in {"versioned", "saving", "snapshot", "history"}
  /\ ReleaseBy(o, [op EXCEPT ![o].pc = "done",
                             ![o].snapshot = NoSnapshot,
                             ![o].history = <<>>,
                             ![o].result = "StoreError"])
  /\ UNCHANGED <<inst, objs, events, snapshots, withSnapshot, nRecorded>>
  /\ UNCHANGED <<caller, counter, runs, arrived, replay, publishedFails,
                 handle, call, xvars>>

\* the steps of operation o after its call
OpStep(o) ==
  \/ SaveEnter(o)
  \/ \E outcome \in {"ok", "fail"} : SaveRecorded(o, outcome)
  \/ SaveChecked(o)
  \/ \E outcome \in {"ok", "fail"} : SaveFinish(o, outcome)
  \/ LoadEnter(o)
  \/ LoadSnapshot(o)
  \/ LoadFinish(o)
  \/ StoreFails(o)

CallsNext ==
  \/ \E o \in Ops, i \in Insts : SaveCall(o, i)
  \/ \E o \in Ops, id \in Ids, i \in Insts : LoadCall(o, id, i)
  \/ \E o \in Ops : OpStep(o)

\* every store call and every subscriber settles, and a granted call resumes
CallsFairSpec ==
  /\ CallsInit
  /\ [][CallsNext]_vars
  /\ \A o \in Ops : WF_vars(OpStep(o))

\* C12: whatever way a save or load leaves (no pending events, subscriber
\* failure, ConcurrencyError, store failure, replay error, success), its key
\* is released: no key stays held by a finished call, and a call waiting for
\* a key is eventually granted
C12_GuaranteedRelease ==
  /\ [](\A k \in locks :
          \E o \in Ops : InCriticalSection(o) /\ op[o].key = k)
  /\ \A o \in Ops :
       (op[o].pc = "lock" /\ ~ op[o].granted) ~> op[o].granted

C12_Witness ==
  \E o, n \in Ops :
    /\ n < o
    /\ op[n].pc = "done"
    /\ op[n].result \notin {"ok", "noop"}
    /\ op[o].key = op[n].key
    /\ op[o].overlapped
    /\ op[o].granted

\* C13: a save that finds no pending events returns at once: it emits
\* neither notification, calls neither getAggregateVersion nor saveEvents
\* nor saveSnapshot, and leaves the instance and the store as they were
C13_NoOpSave ==
  [][\A o \in Ops :
       ( /\ op[o].kind = "save"
         /\ op[o].pc = "lock"
         /\ op'[o].pc # "lock"
         /\ inst[op[o].inst].recordedEvents = <<>> )
       => /\ op'[o].pc = "done"
          /\ op'[o].result = "noop"
          /\ ~ op'[o].recordedEmitted
          /\ ~ op'[o].published
          /\ ~ op'[o].savedEvents
          /\ ~ op'[o].savedSnapshot
          /\ inst' = inst
          /\ objs' = objs
          /\ events' = events
          /\ snapshots' = snapshots]_vars

C13_Witness ==
  \E o \in Ops :
    /\ op[o].kind = "save"
    /\ op[o].pc = "done"
    /\ op[o].result = "noop"
    /\ inst[op[o].inst].version = 0

\* the events popped from instance i, each tagged with its name and id
Tagged(i) ==
  [n \in 1..Len(inst[i].recordedEvents) |->
     [aggregateId |-> inst[i].id, aggregateType |-> AggName,
      name |-> inst[i].recordedEvents[n].name,
      payload |-> inst[i].recordedEvents[n].payload,
      version |-> inst[i].recordedEvents[n].version]]

\* C14: 'eventsRecorded' is emitted with the popped events, tagged and in
\* recording order, before getAggregateVersion and saveEvents are called, and
\* these are called only when its emit has been awaited; 'eventsPublished' is
\* emitted only when saveEvents has completed, with the same events, which
\* are the ones that were persisted
C14_PublicationOrder ==
  [][\A o \in Ops :
       /\ (~ op[o].recordedEmitted /\ op'[o].recordedEmitted)
            => /\ op'[o].recordedWith = Tagged(op[o].inst)
               /\ op'[o].pc = "recorded"
               /\ ~ op'[o].savedEvents
               /\ events' = events
       /\ (op[o].pc # "versioned" /\ op'[o].pc = "versioned")
            => /\ op[o].pc = "recorded"
               /\ op[o].recordedEmitted
       /\ (~ op[o].savedEvents /\ op'[o].savedEvents)
            => /\ op[o].pc = "versioned"
               /\ op[o].recordedEmitted
               /\ events' = events \o op[o].recordedWith
       /\ (~ op[o].published /\ op'[o].published)
            => /\ op[o].pc = "saving"
               /\ op[o].savedEvents
               /\ Persisted(o)
               /\ op'[o].publishedWith = op[o].recordedWith]_vars

C14_Witness ==
  \E o \in Ops :
    /\ op[o].result = "ok"
    /\ op[o].published
    /\ Len(op[o].publishedWith) >= 2
    /\ op[o].publishedWith = op[o].recordedWith

\* C15: on a snapshot store a save that has persisted events writes, for its
\* aggregate id only, a snapshot whose version is the version of the last
\* persisted event of that id and whose state is the state object of the
\* instance; on a store without snapshots neither save nor load performs a
\* snapshot operation
C15_SnapshotWritten ==
  /\ [][\A o \in Ops :
          (op[o].pc = "saving" /\ op'[o].result = "ok")
          => IF withSnapshot
               THEN LET id == op[o].id
                        versions == PersistedVersions(id)
                    IN /\ op'[o].savedSnapshot
                       /\ snapshots'[id].present
                       /\ snapshots'[id].version = versions[Len(versions)]
                       /\ snapshots'[id].state = inst[op[o].inst].state
                       /\ \A other \in Ids \ {id} :
                            snapshots'[other] = snapshots[other]
               ELSE snapshots' = snapshots]_vars
  /\ [](~ withSnapshot =>
          /\ \A id \in Ids : snapshots[id] = NoSnapshot
          /\ \A o \in Ops : /\ ~ op[o].savedSnapshot
                             /\ op[o].pc # "snapshot"
                             /\ op[o].snapshot = NoSnapshot)

C15_Witness ==
  \E o \in Ops :
    /\ withSnapshot
    /\ op[o].result = "ok"
    /\ op[o].savedSnapshot
    /\ Len(op[o].recorded) >= 2
    /\ snapshots[op[o].id].version = op[o].recorded[2].version

(* ------------------- Repository after a first save --------------------- *)
\* repository.spec.ts:209-228  cart-1 has recorded one event and its save has
\* succeeded: the store holds the event and, on a snapshot store, the snapshot
SavedInit ==
  /\ locks = {}
  /\ queue = [k \in RepoKeys |-> <<>>]
  /\ caller = [p \in Callers |->
                 [pc |-> "idle", key |-> NoKey, cur |-> 0,
                  via |-> "direct", late |-> FALSE]]
  /\ counter = [k \in Keys |-> 1]
  /\ runs = [k \in Keys |-> 0]
  /\ arrived = [k \in Keys |-> <<>>]
  /\ op = [o \in Ops |-> IdleOp]
  /\ inst = [i \in Insts |->
               IF i = 1
                 THEN [createInstanceData("cart-1", 1) EXCEPT !.version = 1]
                 ELSE NoRecord]
  /\ objs = [i \in Insts |-> IF i = 1 THEN 1 ELSE initialState]
  /\ events = TakenHistory
  /\ withSnapshot \in BOOLEAN
  /\ snapshots =
       [id \in Ids |->
          IF withSnapshot /\ id = "cart-1"
            THEN snapshotOf(<<[name |-> "ItemAdded", payload |-> 1,
                               version |-> 1]>>, 1)
            ELSE NoSnapshot]
  /\ nRecorded = 1
  /\ replay = NoReplay
  /\ publishedFails \in BOOLEAN
  /\ handle = [h \in Insts |-> NoHandle]
  /\ call = NoCall
  /\ aggregateDefinitions = Registered
  /\ snapshotWrites = {}

SavedSpec == SavedInit /\ [][Next]_vars

\* instance i has nothing pending and its last event was persisted by a save
\* that succeeded: the save before SavedInit for the untouched cart-1
SavedInstance(i) ==
  /\ inst[i].created
  /\ inst[i].version >= 1
  /\ inst[i].recordedEvents = <<>>
  /\ \/ /\ i = 1 /\ inst[i].version = 1
        /\ events # <<>> /\ events[1] = TakenHistory[1]
     \/ \E s \in Ops :
          /\ op[s].kind = "save" /\ op[s].inst = i /\ op[s].result = "ok"
          /\ op[s].recorded[Len(op[s].recorded)].version = inst[i].version

\* the versions 1..n in order
UpTo(n) == [k \in 1..n |-> k]

\* C16: a load called when no other call is in flight, with no save during
\* it, of an id whose saved instance holds the last persisted version returns
\* an instance with that instance's version and state; the first save of a
\* loaded instance, with no other writer since the load, persists its events
\* without ConcurrencyError, their versions continuing the loaded version
C16_RoundTrip ==
  [][\A o \in Ops :
       /\ ( /\ op[o].kind = "load"
            /\ op[o].pc = "history" /\ op'[o].pc = "done"
            /\ ~ op[o].overlapped
            /\ \A n \in Ops \ {o} :
                 op[n].kind = "save" => (n < o /\ op[n].pc = "done") )
          => \A i \in Insts :
               ( /\ SavedInstance(i)
                 /\ inst[i].id = op[o].id
                 /\ PersistedVersions(op[o].id) = UpTo(inst[i].version) )
               => /\ op'[o].result = "ok"
                  /\ inst'[op[o].inst].version = inst[i].version
                  /\ objs'[inst'[op[o].inst].state] = objs'[inst[i].state]
       /\ ( /\ op[o].kind = "save"
            /\ op[o].pc = "versioned" /\ op'[o].pc # "versioned"
            /\ \A n \in Ops :
                 (n < o /\ op[n].kind = "save") => op[n].inst # op[o].inst )
          => \A l \in Ops :
               ( /\ op[l].kind = "load" /\ op[l].result = "ok"
                 /\ op[l].inst = op[o].inst
                 /\ PersistedVersions(op[o].id) = UpTo(op[l].returned) )
               => /\ op'[o].savedEvents
                  /\ op'[o].pc = "saving"
                  /\ op[o].recorded[1].version = op[l].returned + 1
                  /\ PersistedVersions(op[o].id)' =
                       UpTo(op[l].returned + Len(op[o].recorded))]_vars

C16_Witness ==
  \E l, s \in Ops :
    /\ op[l].kind = "load" /\ op[l].result = "ok"
    /\ op[l].returned >= 1
    /\ ~ op[l].overlapped
    /\ op[s].kind = "save" /\ op[s].result = "ok"
    /\ op[s].inst = op[l].inst
    /\ PersistedVersions(op[s].id) = UpTo(op[l].returned + Len(op[s].recorded))

(* --------------------- loadAggregate called directly ------------------- *)
\* aggregateData.spec.ts:77-386  the events handed to loadAggregate: any
\* versions in any order, of an event with a handler or of one without
EventNames == {"ItemAdded", "ItemRemoved"}
HistoryEvents ==
  [name : EventNames, payload : Quantities, version : 1..MaxVersion]
Histories == UNION {[1..n -> HistoryEvents] : n \in 0..MaxHistory}

\* the state object of the new instance and the one the snapshot holds
FreshRef == 1
SnapshotRef == 2

\* aggregateData.spec.ts:120-126  the snapshots handed to loadAggregate: none,
\* or one at version s whose state is the total after s events
GivenSnapshots ==
  {NoSnapshot} \cup
  {[present |-> TRUE, version |-> s, state |-> SnapshotRef] :
     s \in 1..MaxSnapshotVersion}
ReplayHeap(snapshot) == <<initialState, snapshot.version>>

ReplayInit ==
  /\ locks = {}
  /\ queue = [k \in Keys |-> <<>>]
  /\ caller = [p \in Callers |->
                 [pc |-> "idle", key |-> NoKey, cur |-> 0,
                  via |-> "direct", late |-> FALSE]]
  /\ counter = [k \in Keys |-> 1]
  /\ runs = [k \in Keys |-> 0]
  /\ arrived = [k \in Keys |-> <<>>]
  /\ op = [o \in Ops |-> IdleOp]
  /\ inst = [i \in Insts |-> NoRecord]
  /\ objs = [i \in Insts |-> initialState]
  /\ events = <<>>
  /\ snapshots = [id \in Ids |-> NoSnapshot]
  /\ withSnapshot = FALSE
  /\ nRecorded = 0
  /\ replay \in [hasEvents : BOOLEAN, history : Histories,
                  snapshot : GivenSnapshots, result : {NotReplayed}]
  /\ publishedFails = FALSE
  /\ handle = [h \in Insts |-> NoHandle]
  /\ call = NoCall
  /\ aggregateDefinitions = Registered
  /\ snapshotWrites = {}

\* aggregateData.ts:127-199  loadAggregate(name, id, events, snapshot)
Replay ==
  /\ replay.result = NotReplayed
  /\ replay' =
       [replay EXCEPT !.result =
          loadAggregate(replay.hasEvents, CartHandlers, replay.history,
                        replay.snapshot, FreshRef,
                        ReplayHeap(replay.snapshot))]
  /\ UNCHANGED <<mvars, op, inst, objs, events, snapshots, withSnapshot,
                 nRecorded, publishedFails, handle, call, xvars>>

ReplayNext == Replay

ReplaySpec == ReplayInit /\ [][ReplayNext]_vars

\* the call has returned or thrown
Replayed == replay.result # NotReplayed

\* the version replay starts from
BaseVersion == IF replay.snapshot.present THEN replay.snapshot.version ELSE 0

\* the versions of the supplied events that the snapshot does not subsume
RemainingVersions ==
  {replay.history[n].version : n \in
     {m \in 1..Len(replay.history) :
        replay.history[m].version > BaseVersion}}
NumRemaining ==
  Cardinality({m \in 1..Len(replay.history) :
                 replay.history[m].version > BaseVersion})

\* every supplied event has a handler in a definition that declares handlers
AllHandled ==
  /\ replay.hasEvents
  /\ \A n \in 1..Len(replay.history) :
       replay.history[n].name \in CartHandlers

\* the supplied events are, in some order, the k events right after the base
ContiguousAfterBase ==
  /\ Len(replay.history) = NumRemaining
  /\ RemainingVersions = (BaseVersion + 1)..(BaseVersion + NumRemaining)

\* C17: replaying n contiguous events 1..n with no snapshot gives version n,
\* replaying k contiguous events s+1..s+k on a snapshot at version s gives
\* version s+k, and replaying an empty history gives version 0 and the
\* initial state without a snapshot, version s and the snapshot's state with
\* one
C17_ReplayVersion ==
  /\ (Replayed /\ AllHandled /\ ContiguousAfterBase) =>
        /\ replay.result.err = "none"
        /\ replay.result.version = BaseVersion + Len(replay.history)
  /\ (Replayed /\ replay.history = <<>>) =>
        /\ replay.result.err = "none"
        /\ replay.result.version = BaseVersion
        /\ IF replay.snapshot.present
             THEN /\ replay.result.state = replay.snapshot.state
                  /\ replay.result.heap[SnapshotRef] =
                       ReplayHeap(replay.snapshot)[SnapshotRef]
             ELSE /\ replay.result.state = FreshRef
                  /\ replay.result.heap[FreshRef] = initialState

C17_Witness ==
  /\ Replayed
  /\ AllHandled
  /\ replay.snapshot.present
  /\ ContiguousAfterBase
  /\ Len(replay.history) >= 2
  /\ replay.history[1].version > replay.history[2].version
  /\ replay.result.version = BaseVersion + Len(replay.history)

\* the lowest version among the events the snapshot does not subsume
LowestRemaining ==
  CHOOSE v \in RemainingVersions : \A w \in RemainingVersions : v <= w

\* sorted by version, the remaining events have a gap or a repeated version
NotConsecutive ==
  \/ Cardinality(RemainingVersions) # NumRemaining
  \/ \E v \in RemainingVersions :
       /\ v # LowestRemaining
       /\ v - 1 \notin RemainingVersions

\* C18 as stated: whenever the remaining events, sorted, are not consecutive,
\* replay fails with the 'not continous' error
C18_AnyGapNotContinous ==
  (Replayed /\ replay.hasEvents /\ NumRemaining > 0 /\ NotConsecutive)
  => replay.result.err = "NotContinous"

\* C18, amended: when the remaining events, sorted, start right after the
\* snapshot (or at 1) and are not consecutive, replay fails with the 'not
\* continous' error and returns no instance
C18_ContinuityError ==
  ( /\ Replayed /\ replay.hasEvents
    /\ NumRemaining > 0
    /\ LowestRemaining = BaseVersion + 1
    /\ NotConsecutive )
  => replay.result.err = "NotContinous"

C18_Witness ==
  /\ Replayed
  /\ replay.hasEvents
  /\ ~ replay.snapshot.present
  /\ Len(replay.history) = 3
  /\ replay.history[1].version = 1
  /\ replay.history[2].version = 2
  /\ replay.history[3].version = 4
  /\ replay.result.err = "NotContinous"

\* C19: when the lowest remaining version is not the snapshot's version + 1
\* (1 without a snapshot), replay fails with the 'doesn't start right after
\* snapshot' error
C19_StartOffsetError ==
  ( /\ Replayed /\ replay.hasEvents
    /\ NumRemaining > 0
    /\ LowestRemaining # BaseVersion + 1 )
  => replay.result.err = "NotRightAfterSnapshot"

C19_Witness ==
  /\ Replayed
  /\ replay.hasEvents
  /\ replay.snapshot.present
  /\ NumRemaining = Len(replay.history)
  /\ Len(replay.history) >= 2
  /\ LowestRemaining = BaseVersion + 2
  /\ ~ NotConsecutive
  /\ replay.result.err = "NotRightAfterSnapshot"

\* C20: the events at or below the snapshot's version are never applied: the
\* state a replay on a snapshot returns is the snapshot's state plus the
\* events above its version, and when no supplied event is above it the
\* result is the snapshot's state and version, untouched by any handler
C20_SnapshotSubsumption ==
  (Replayed /\ replay.snapshot.present /\ replay.hasEvents) =>
    /\ replay.result.err = "none" =>
         /\ replay.result.state = replay.snapshot.state
         /\ replay.result.heap[SnapshotRef] =
              ReplayHeap(replay.snapshot)[SnapshotRef] + NumRemaining
         /\ replay.result.version = BaseVersion + NumRemaining
    /\ NumRemaining = 0 =>
         /\ replay.result.err = "none"
         /\ replay.result.version = replay.snapshot.version
         /\ replay.result.heap = ReplayHeap(replay.snapshot)

C20_Witness ==
  /\ Replayed
  /\ replay.snapshot.present
  /\ replay.snapshot.version = 2
  /\ Len(replay.history) = 3
  /\ \A n \in 1..3 : replay.history[n].version = n
  /\ replay.result.err = "none"
  /\ replay.result.version = 3
  /\ replay.result.heap[SnapshotRef] = 3

\* the supplied events are a permutation of a valid history: each has a
\* handler, no version repeats, and those the snapshot does not subsume are
\* the k events right after it
ValidHistory ==
  /\ AllHandled
  /\ Cardinality({replay.history[n].version : n \in 1..Len(replay.history)})
       = Len(replay.history)
  /\ RemainingVersions = (BaseVersion + 1)..(BaseVersion + NumRemaining)

\* utils.spec.ts:6-22  the supplied events in ascending version order (the
\* n-th is the one with n - 1 lower versions among them)
AscendingHistory ==
  LET given == {replay.history[n] : n \in 1..Len(replay.history)}
  IN [n \in 1..Len(replay.history) |->
        CHOOSE e \in given :
          Cardinality({f \in given : f.version < e.version}) = n - 1]

\* C21: for every permutation of a valid contiguous history, with the same
\* optional snapshot, replay calls the handlers in ascending version order
\* and returns the same state and version as for the sorted history
C21_OrderInsensitive ==
  (Replayed /\ ValidHistory) =>
    /\ replay.result.err = "none"
    /\ replay.result.applied =
         [n \in 1..NumRemaining |-> BaseVersion + n]
    /\ replay.result =
         loadAggregate(replay.hasEvents, CartHandlers, AscendingHistory,
                       replay.snapshot, FreshRef, ReplayHeap(replay.snapshot))

C21_Witness ==
  /\ Replayed
  /\ ValidHistory
  /\ replay.snapshot.present /\ replay.snapshot.version = 1
  /\ Len(replay.history) = 3
  /\ replay.history[1].version = 3
  /\ replay.history[2].version = 1
  /\ replay.history[3].version = 2
  /\ replay.result.applied = <<2, 3>>
  /\ replay.result.version = 3

\* some supplied event the snapshot does not subsume has a name without a
\* handler
SomeRemainingUnhandled ==
  \E n \in 1..Len(replay.history) :
    /\ replay.history[n].version > BaseVersion
    /\ replay.history[n].name \notin CartHandlers

\* C22 as stated: a non-empty history on a definition without handlers
\* fails, and whenever some remaining event has no handler replay fails with
\* the 'handler not defined' error
C22_AnyUnhandledName ==
  /\ (Replayed /\ replay.history # <<>> /\ ~ replay.hasEvents) =>
        replay.result.err = "NoEventHandlers"
  /\ (Replayed /\ replay.hasEvents /\ SomeRemainingUnhandled) =>
        replay.result.err = "HandlerNotDefined"

\* C22, amended: a non-empty history on a definition without handlers fails
\* with the 'none are defined' error; on a definition with handlers, when the
\* remaining events start right after the snapshot (or at 1) and are
\* consecutive and some of them has no handler, replay fails with the
\* 'handler not defined' error; in both cases no instance is returned
C22_HandlerErrors ==
  /\ (Replayed /\ replay.history # <<>> /\ ~ replay.hasEvents) =>
        replay.result.err = "NoEventHandlers"
  /\ ( /\ Replayed /\ replay.hasEvents
       /\ SomeRemainingUnhandled
       /\ LowestRemaining = BaseVersion + 1
       /\ ~ NotConsecutive )
     => replay.result.err = "HandlerNotDefined"

C22_Witness ==
  /\ Replayed
  /\ replay.hasEvents
  /\ ~ replay.snapshot.present
  /\ Len(replay.history) = 2
  /\ replay.history[1] =
       [name |-> "ItemRemoved", payload |-> 1, version |-> 2]
  /\ replay.history[2] =
       [name |-> "ItemAdded", payload |-> 1, version |-> 1]
  /\ replay.result.err = "HandlerNotDefined"
  /\ replay.result.applied = <<1>>

(* ------------------- handles and the instance registry ----------------- *)
\* aggregate.spec.ts:79-88, repository.spec.ts:78-125  the definitions the
\* handles are made from: the cart, and one that declares no events
Definitions == {AggName, "OtherAggregate"}
hasEventsOf(def) == def = AggName
handlersOf(def) == IF def = AggName THEN CartHandlers ELSE {}

\* aggregate.spec.ts:96-106, aggregateData.spec.ts:19-24  the handle objects:
\* one made by a definition (by create or by loadAggregate), a copy spread
\* from it, and an object made by hand that no definition has registered
Handles == {"made", "copy", "fake"}
Exists(h) == handle[h].kind # "none"

\* aggregateData.ts:78,95,116  `aggregatesData.get(instance)`: a WeakMap, keyed
\* by the handle object itself; lookupByShape would find the record of the
\* handle a copy was spread from
lookupByShape(records, handles, h) ==
  IF handles[h].kind = "copy" THEN records[handles[h].cell] ELSE records[h]
lookup(records, handles, h) == records[h]

\* aggregate.ts:26,48,60  the value of the closure variable `instance` the
\* methods of handle h read: the handle its create call built, or null
instanceOf(handles, h) ==
  IF handles[h].cell = "null" THEN "null"
  ELSE IF handles[handles[h].cell].nulled THEN "null" ELSE handles[h].cell

\* aggregate.ts:68-70  [Symbol.dispose](): `instance = null`
disposedKeepsInstance(handles, c) == handles
disposed(handles, c) == [handles EXCEPT ![c].nulled = TRUE]

\* aggregate.ts:44-46  `if (!options.events?.[name]) return`
handlerMissingNever(def, name) == FALSE
handlerMissing(def, name) == ~ hasEventsOf(def) \/ name \notin handlersOf(def)

\* aggregateData.spec.ts:19-24,77-104  the histories handed to loadAggregate
\* here: the first k events of a cart, or any single event
LoadHistories ==
  {[n \in 1..k |-> [name |-> "ItemAdded", payload |-> 1, version |-> n]] :
     k \in 0..MaxRecorded}
  \cup {h \in Histories : Len(h) = 1}

Called(name, h, err) == [name |-> name, h |-> h, err |-> err]

\* the history of a record after `data` became its content
Noted(hd, before, data) ==
  IF data.version = before.version THEN hd
  ELSE [hd EXCEPT
          !.lastEvent = data.recordedEvents[Len(data.recordedEvents)].version,
          !.recordedAll =
             Append(@, data.recordedEvents[Len(data.recordedEvents)])]

hframe == <<mvars, op, events, snapshots, withSnapshot, replay,
            publishedFails, xvars>>

HandleInit ==
  /\ locks = {}
  /\ queue = [k \in Keys |-> <<>>]
  /\ caller = [p \in Callers |->
                 [pc |-> "idle", key |-> NoKey, cur |-> 0,
                  via |-> "direct", late |-> FALSE]]
  /\ counter = [k \in Keys |-> 1]
  /\ runs = [k \in Keys |-> 0]
  /\ arrived = [k \in Keys |-> <<>>]
  /\ op = [o \in Ops |-> IdleOp]
  /\ inst = [h \in Handles |-> NoRecord]
  /\ objs = [h \in Handles |-> initialState]
  /\ events = <<>>
  /\ snapshots = [id \in Ids |-> NoSnapshot]
  /\ withSnapshot = FALSE
  /\ nRecorded = 0
  /\ replay = NoReplay
  /\ publishedFails = FALSE
  /\ handle = [h \in Handles |-> NoHandle]
  /\ call = NoCall
  /\ aggregateDefinitions = Registered
  /\ snapshotWrites = {}

\* aggregate.ts:25-74  definition.create(id)
HCreate(h, def, id) ==
  /\ ~ Exists(h)
  /\ handle' = [handle EXCEPT ![h] =
                  [NoHandle EXCEPT !.kind = "created", !.def = def,
                                   !.cell = h]]
  /\ inst' = [inst EXCEPT ![h] = createInstanceData(id, h)]
  /\ objs' = [objs EXCEPT ![h] = initialState]
  /\ call' = Called("create", h, "none")
  /\ UNCHANGED <<nRecorded, hframe>>

\* aggregateData.ts:127-199  loadAggregate(name, id, events): the handle is
\* returned only when nothing was thrown
HLoad(h, def, id, history) ==
  /\ ~ Exists(h)
  /\ LET r == loadAggregate(hasEventsOf(def), handlersOf(def), history,
                            NoSnapshot, h, objs)
     IN IF r.err = "none"
          THEN /\ handle' = [handle EXCEPT ![h] =
                    [NoHandle EXCEPT
                       !.kind = "loaded", !.def = def, !.cell = h,
                       !.lastEvent = IF r.applied = <<>> THEN 0
                                     ELSE r.applied[Len(r.applied)]]]
               /\ inst' = [inst EXCEPT ![h] =
                             [createInstanceData(id, r.state)
                                EXCEPT !.version = r.version]]
               /\ objs' = r.heap
               /\ call' = Called("load", h, "none")
          ELSE /\ call' = Called("load", "none", r.err)
               /\ UNCHANGED <<handle, inst, objs>>
  /\ UNCHANGED <<nRecorded, hframe>>

\* aggregateData.spec.ts:19-24  createFakeInstance: an object that was never
\* registered
HFake(h) ==
  /\ ~ Exists(h)
  /\ handle' = [handle EXCEPT ![h] = [NoHandle EXCEPT !.kind = "fake"]]
  /\ call' = Called("fake", h, "none")
  /\ UNCHANGED <<inst, objs, nRecorded, hframe>>

\* aggregate.spec.ts:101-105  `{ ...my }`: a new object with the methods of g
HCopy(h, g) ==
  /\ ~ Exists(h)
  /\ Exists(g)
  /\ handle' = [handle EXCEPT ![h] =
                  [NoHandle EXCEPT !.kind = "copy", !.def = handle[g].def,
                                   !.cell = handle[g].cell]]
  /\ call' = Called("copy", h, "none")
  /\ UNCHANGED <<inst, objs, nRecorded, hframe>>

\* aggregateData.ts:60-73  createInstanceData(instance, state) on an object
\* that has no record yet (aggregateData.spec.ts:488-501)
HCreateInstanceData(h, id) ==
  /\ handle[h].kind = "fake"
  /\ ~ inst[h].created
  /\ inst' = [inst EXCEPT ![h] = createInstanceData(id, h)]
  /\ objs' = [objs EXCEPT ![h] = initialState]
  /\ call' = Called("createInstanceData", h, "none")
  /\ UNCHANGED <<handle, nRecorded, hframe>>

\* aggregateData.ts:75-84  aggregateData(instance)
HGet(h) ==
  /\ Exists(h)
  /\ call' = Called("get", h,
                    IF lookup(inst, handle, h).created
                      THEN "none" ELSE "InstanceDoesNotExist")
  /\ UNCHANGED <<handle, inst, objs, nRecorded, hframe>>

\* aggregateData.ts:86-107  recordEvent(instance, {name, payload})
HRecordEvent(h, name, payload) ==
  /\ Exists(h)
  /\ LET event == [name |-> name, payload |-> payload]
         data == lookup(inst, handle, h)
     IN IF ~ data.created
          THEN /\ call' = Called("recordEvent", h, "InstanceDoesNotExist")
               /\ UNCHANGED <<handle, inst, nRecorded>>
          ELSE /\ nRecorded < MaxRecorded
               /\ nRecorded' = nRecorded + 1
               /\ inst' = [inst EXCEPT ![h] = recordEvent(data, name, payload)]
               /\ handle' = [handle EXCEPT ![h] = Noted(@, data, inst'[h])]
               /\ call' = Called("recordEvent", h, "none")
  /\ UNCHANGED <<objs, hframe>>

\* aggregateData.ts:109-125  popRecordedEvents(instance)
HPop(h) ==
  /\ Exists(h)
  /\ LET data == lookup(inst, handle, h)
     IN IF ~ data.created
          THEN /\ call' = Called("pop", h, "InstanceDoesNotExist")
               /\ UNCHANGED <<handle, inst>>
          ELSE /\ inst' = [inst EXCEPT ![h] = popped(data).data]
               /\ handle' = [handle EXCEPT
                               ![h].poppedAll = @ \o popped(data).returned]
               /\ call' = Called("pop", h, "none")
  /\ UNCHANGED <<objs, nRecorded, hframe>>

\* aggregate.ts:30-58  an action of the handle that calls
\* this.recordThat(name, payload) (repository.spec.ts:106-111, aggregate.spec.ts
\* :83-86): recordThat returns at once without a handler, and otherwise
\* records on the closure's `instance` and runs the handler on its state
HAction(h, name, payload) ==
  /\ handle[h].kind \in {"created", "loaded", "copy"}
  /\ LET event == [name |-> name, payload |-> payload]
         i == instanceOf(handle, h)
     IN IF handlerMissing(handle[h].def, name)
          THEN /\ call' = Called("action", h, "none")
               /\ UNCHANGED <<handle, inst, objs, nRecorded>>
        ELSE IF i = "null" \/ ~ lookup(inst, handle, i).created
          THEN /\ call' = Called("action", h, "InstanceDoesNotExist")
               /\ UNCHANGED <<handle, inst, objs, nRecorded>>
        ELSE /\ nRecorded < MaxRecorded
             /\ nRecorded' = nRecorded + 1
             /\ inst' = [inst EXCEPT ![i] = recordEvent(inst[i], name, payload)]
             /\ handle' = [handle EXCEPT ![i] = Noted(@, inst[i], inst'[i])]
             /\ objs' = applyHandler(objs, inst[i].state, event)
             /\ call' = Called("action", h, "none")
  /\ UNCHANGED hframe

\* aggregate.ts:26-28  what this.state() hands to an action: the record's
\* state object itself (stateCopy is state, the clone is a TODO)
stateCopy(data) == data.state

\* the total the evil action of aggregate.spec.ts:139-146 adds
EvilTotal == 666

\* an action that keeps what this.state() returned, calls recordThat and looks
\* at the kept value again: `const view = this.state();
\* this.recordThat(name, payload); view.total`
HViewAction(h, name, payload) ==
  /\ handle[h].kind \in {"created", "loaded", "copy"}
  /\ ~ handlerMissing(handle[h].def, name)
  /\ LET event == [name |-> name, payload |-> payload]
         i == instanceOf(handle, h)
     IN IF i = "null" \/ ~ lookup(inst, handle, i).created
          THEN /\ call' = Called("view", h, "InstanceDoesNotExist")
               /\ UNCHANGED <<handle, inst, objs, nRecorded>>
        ELSE LET view == stateCopy(lookup(inst, handle, i))
             IN /\ nRecorded < MaxRecorded
                /\ nRecorded' = nRecorded + 1
                /\ inst' =
                     [inst EXCEPT ![i] = recordEvent(inst[i], name, payload)]
                /\ handle' = [handle EXCEPT ![i] = Noted(@, inst[i], inst'[i])]
                /\ objs' = applyHandler(objs, inst[i].state, event)
                /\ call' = [name |-> "view", h |-> h, err |-> "none",
                            before |-> objs[view], seen |-> objs'[view]]
  /\ UNCHANGED hframe

\* aggregate.spec.ts:139-141  the evil action's write to what this.state()
\* returned: `this.state().test += x`
HEvilAction(h) ==
  /\ handle[h].kind \in {"created", "loaded", "copy"}
  /\ LET i == instanceOf(handle, h)
     IN IF i = "null" \/ ~ lookup(inst, handle, i).created
          THEN /\ call' = Called("evil", h, "InstanceDoesNotExist")
               /\ objs' = objs
        ELSE LET view == stateCopy(lookup(inst, handle, i))
             IN /\ objs[view] < EvilTotal
                /\ objs' = [objs EXCEPT ![view] = @ + EvilTotal]
                /\ call' = Called("evil", h, "none")
  /\ UNCHANGED <<handle, inst, nRecorded, hframe>>

\* aggregate.ts:68-70  handle[Symbol.dispose](); a no-op on a fake instance
\* (aggregateData.spec.ts:23)
HDispose(h) ==
  /\ Exists(h)
  /\ handle' = IF handle[h].cell = "null" THEN handle
               ELSE disposed(handle, handle[h].cell)
  /\ call' = Called("dispose", h, "none")
  /\ UNCHANGED <<inst, objs, nRecorded, hframe>>

HandleNext ==
  \/ \E def \in Definitions : HCreate("made", def, "cart-1")
  \/ \E def \in Definitions, history \in LoadHistories :
       HLoad("made", def, "cart-1", history)
  \/ HFake("fake")
  \/ HCopy("copy", "made")
  \/ HCreateInstanceData("fake", "cart-2")
  \/ \E h \in Handles : HGet(h)
  \/ \E h \in Handles, name \in EventNames, payload \in Quantities :
       HRecordEvent(h, name, payload)
  \/ \E h \in Handles : HPop(h)
  \/ \E h \in Handles, name \in EventNames, payload \in Quantities :
       HAction(h, name, payload)
  \/ \E h \in Handles, name \in EventNames, payload \in Quantities :
       HViewAction(h, name, payload)
  \/ \E h \in Handles : HEvilAction(h)
  \/ \E h \in Handles : HDispose(h)

HandleSpec == HandleInit /\ [][HandleNext]_vars

\* the handle has a record and the closure variable behind it, if it has
\* one, is not null
Live(h) ==
  /\ Exists(h)
  /\ inst[h].created
  /\ handle[h].cell # "null" => ~ handle[handle[h].cell].nulled

\* C23: recordEvent on a live handle adds 1 to the record's version and
\* appends one event with the given name and payload and the new version to
\* the end of the pending buffer; nothing else changes, the domain state
\* included
C23_RecordEventEffect ==
  [][\A h \in Handles, name \in EventNames, payload \in Quantities :
       (Live(h) /\ HRecordEvent(h, name, payload)) =>
         /\ call'.err = "none"
         /\ inst'[h] =
              [inst[h] EXCEPT
                 !.version = inst[h].version + 1,
                 !.recordedEvents =
                    Append(inst[h].recordedEvents,
                           [name |-> name, payload |-> payload,
                            version |-> inst[h].version + 1])]
         /\ \A g \in Handles \ {h} : inst'[g] = inst[g]
         /\ objs' = objs]_vars

C23_Witness ==
  /\ call = Called("recordEvent", "fake", "none")
  /\ Live("fake")
  /\ inst["fake"].version = 1
  /\ inst["fake"].recordedEvents =
       <<[name |-> "ItemRemoved", payload |-> 1, version |-> 1]>>
  /\ objs["fake"] = initialState

C25_PopOnce ==
  /\ [](\A h \in Handles :
          inst[h].created =>
            handle[h].poppedAll \o inst[h].recordedEvents
              = handle[h].recordedAll)
  /\ [][\A h \in Handles :
          (inst[h].created /\ HPop(h)) =>
            /\ call'.err = "none"
            /\ handle'[h].poppedAll =
                 handle[h].poppedAll \o inst[h].recordedEvents
            /\ inst' = [inst EXCEPT ![h].recordedEvents = <<>>]
            /\ objs' = objs]_vars

C25_Witness ==
  /\ call = Called("pop", "made", "none")
  /\ inst["made"].recordedEvents = <<>>
  /\ Len(handle["made"].poppedAll) = 2
  /\ handle["made"].poppedAll = handle["made"].recordedAll

\* the handle came from a definition (or is a copy of one that did) and its
\* [Symbol.dispose]() has been called
Disposed(h) ==
  /\ Exists(h)
  /\ handle[h].cell # "null"
  /\ handle[handle[h].cell].nulled

\* the handle was returned by definition.create or by loadAggregate
Made(h) == handle[h].kind \in {"created", "loaded"}

\* C26: after a handle made by create or by replay is disposed, get,
\* recordEvent and popRecordedEvents on it fail with InstanceDoesNotExist
C26_DisposedRegistryFails ==
  ( /\ call.name \in {"get", "recordEvent", "pop"}
    /\ Made(call.h)
    /\ Disposed(call.h) )
  => call.err = "InstanceDoesNotExist"

\* C27: an action invoked on a disposed handle fails with
\* InstanceDoesNotExist
C27_DisposedActionFails ==
  (call.name = "action" /\ Made(call.h) /\ Disposed(call.h))
  => call.err = "InstanceDoesNotExist"

\* C28: a handle is live right after create or replay; it becomes disposed
\* by a disposal call and by nothing else; once disposed it stays disposed
\* whatever is called, and an action that records a handled event fails on
\* it and records nothing
C28_Lifecycle ==
  [][\A h \in Handles :
       /\ (~ Exists(h) /\ Made(h)') => (Live(h) /\ ~ Disposed(h))'
       /\ (Exists(h) /\ ~ Disposed(h) /\ Disposed(h)')
            => \E g \in Handles : HDispose(g) /\ handle[g].cell = handle[h].cell
       /\ (Made(h) /\ HDispose(h)) => Disposed(h)'
       /\ Disposed(h) => Disposed(h)'
       /\ \A payload \in Quantities :
            ( /\ Disposed(h)
              /\ handle[h].def = AggName
              /\ HAction(h, "ItemAdded", payload) )
            => /\ call'.err = "InstanceDoesNotExist"
               /\ inst' = inst /\ objs' = objs]_vars

C28_Witness ==
  /\ handle["made"].kind = "loaded"
  /\ Disposed("made")
  /\ Exists("copy")
  /\ call = Called("action", "copy", "InstanceDoesNotExist")
  /\ inst["made"].version = 2
  /\ inst["made"].recordedEvents = <<>>

\* C29: get, recordEvent and popRecordedEvents on an object that was never
\* given a record, a spread copy of a live handle included, fail with
\* InstanceDoesNotExist and change no record
C29_UnknownHandle ==
  [][\A h \in Handles :
       (Exists(h) /\ ~ inst[h].created) =>
         /\ HGet(h) => call'.err = "InstanceDoesNotExist"
         /\ HPop(h) =>
              /\ call'.err = "InstanceDoesNotExist"
              /\ inst' = inst /\ objs' = objs
         /\ \A name \in EventNames, payload \in Quantities :
              HRecordEvent(h, name, payload) =>
                /\ call'.err = "InstanceDoesNotExist"
                /\ inst' = inst /\ objs' = objs]_vars

C29_Witness ==
  /\ call = Called("pop", "copy", "InstanceDoesNotExist")
  /\ handle["copy"].kind = "copy"
  /\ Live("made")
  /\ Len(inst["made"].recordedEvents) = 1
  /\ ~ inst["copy"].created

\* C30: on a live instance, an action's recordThat for a name that has no
\* handler, or in a definition without events, raises nothing, appends
\* nothing and leaves version and state as they were
C30_SilentNoOp ==
  [][\A h \in Handles, name \in EventNames, payload \in Quantities :
       ( /\ Made(h) /\ Live(h)
         /\ \/ ~ hasEventsOf(handle[h].def)
            \/ name \notin handlersOf(handle[h].def)
         /\ HAction(h, name, payload) )
       => /\ call'.err = "none"
          /\ inst' = inst
          /\ objs' = objs]_vars

C30_Witness ==
  /\ call = Called("action", "made", "none")
  /\ handle["made"].def = "OtherAggregate"
  /\ Live("made")
  /\ inst["made"].version = 0
  /\ handle["made"].recordedAll = <<>>

(* ------------------- state objects shared by reference ----------------- *)
\* C36: replay from a snapshot leaves the state held in the snapshot object
\* the caller supplied as it was
C36_SnapshotByValue ==
  (Replayed /\ replay.snapshot.present) =>
    replay.result.heap[SnapshotRef] = ReplayHeap(replay.snapshot)[SnapshotRef]

\* C34: the state of every snapshot save writes is the initial state folded
\* over exactly the events up to the snapshot's version (each ItemAdded adds
\* its quantity, 1)
C34_SnapshotConsistent ==
  [][\A o \in Ops, outcome \in {"ok", "fail"} :
       (withSnapshot /\ SaveFinish(o, outcome)) =>
         objs'[snapshots'[op[o].id].state]
           = initialState + snapshots'[op[o].id].version]_vars

\* C37: an action on one instance leaves the record and the state of every
\* other instance as they were
C37_RecordsNotShared ==
  [][\A i \in Insts, quantity \in Quantities :
       RecordThat(i, quantity) =>
         \A j \in Insts \ {i} :
           inst[j].created =>
             /\ inst'[j] = inst[j]
             /\ objs'[inst[j].state] = objs[inst[j].state]]_vars

(* ------------------------ loaded instances and save -------------------- *)
\* the instance was returned by the load l and no action has run on it since
FreshlyLoaded(i, l) ==
  /\ op[l].kind = "load" /\ op[l].pc = "done" /\ op[l].result = "ok"
  /\ op[l].inst = i
  /\ inst[i].version = op[l].returned

\* C38: the instance a load returns has an empty pending buffer; a save of
\* it before any action drains nothing, persists nothing and returns; a save
\* of a loaded instance only ever takes events above the loaded version
C38_NoReRecording ==
  [][\A o \in Ops :
       /\ (LoadFinish(o) /\ op'[o].result = "ok") =>
            inst'[op[o].inst].recordedEvents = <<>>
       /\ SaveEnter(o) =>
            \A l \in Ops :
              /\ FreshlyLoaded(op[o].inst, l) =>
                   /\ op'[o].result = "noop"
                   /\ op'[o].pc = "done"
                   /\ events' = events
              /\ (op[l].kind = "load" /\ op[l].result = "ok"
                  /\ op[l].inst = op[o].inst) =>
                   \A n \in 1..Len(op'[o].streamEvents) :
                     op'[o].streamEvents[n].version > op[l].returned]_vars

C38_Witness ==
  \E l, s \in Ops :
    /\ FreshlyLoaded(op[l].inst, l)
    /\ op[l].returned = 1
    /\ op[s].kind = "save" /\ op[s].inst = op[l].inst
    /\ op[s].pc = "done" /\ op[s].result = "noop"
    /\ ~ op[s].savedEvents

\* the save has left with a before-persist subscriber failure or with
\* ConcurrencyError
FailedSave(o) ==
  /\ op[o].kind = "save" /\ op[o].pc = "done"
  /\ op[o].result \in {"SubscriberError", "ConcurrencyError"}

\* C35: after a save has failed with a before-persist subscriber failure or
\* ConcurrencyError, the events it drained are neither persisted nor back in
\* the buffer, which is empty, the instance still has the version and state
\* that count them, and another save of the instance is a no-op that persists
\* nothing
C35_FailedSaveDrains ==
  \A o \in Ops :
    FailedSave(o) =>
      LET i == op[o].inst
      IN /\ op[o].recorded # <<>>
         /\ ~ op[o].savedEvents
         /\ inst[i].recordedEvents = <<>>
         /\ inst[i].version = op[o].recorded[Len(op[o].recorded)].version
         /\ objs[inst[i].state] = initialState + inst[i].version
         /\ \A s \in Ops \ {o} :
              (op[s].kind = "save" /\ op[s].inst = i /\ op[s].pc = "done") =>
                /\ op[s].result = "noop"
                /\ ~ op[s].savedEvents

C35_Witness ==
  \E o, s \in Ops :
    /\ FailedSave(o) /\ op[o].result = "ConcurrencyError"
    /\ op[s].kind = "save" /\ op[s].inst = op[o].inst
    /\ op[s].pc = "done" /\ op[s].result = "noop"
    /\ events = TakenHistory
    /\ inst[op[o].inst].version = 1

(* --------------------- the state actions see and make ------------------ *)
\* the sum of the quantities of a sequence of events
RECURSIVE TotalOf(_)
TotalOf(evs) ==
  IF evs = <<>> THEN 0 ELSE Head(evs).payload + TotalOf(Tail(evs))

\* C31: an action's recordThat for an event that has a handler appends the
\* event with the next version and adds its quantity to the live state in the
\* same step, and a replay returns the initial state plus the quantities of
\* its events at the version that counts them: two events give the same state
\* and version 2 either way
C31_RecordAndApply ==
  [][\A h \in Handles :
       /\ \A payload \in Quantities :
            ( /\ call' = Called("action", h, "none")
              /\ handle[h].def = AggName
              /\ instanceOf(handle, h) # "null"
              /\ HAction(h, "ItemAdded", payload) )
            => LET i == handle[h].cell
               IN /\ inst' =
                       [inst EXCEPT
                          ![i].version = @ + 1,
                          ![i].recordedEvents =
                             Append(@, [name |-> "ItemAdded",
                                        payload |-> payload,
                                        version |-> inst[i].version + 1])]
                  /\ objs' = [objs EXCEPT ![inst[i].state] = @ + payload]
       /\ (call' = Called("load", h, "none"))
          => \A history \in LoadHistories :
               HLoad(h, AggName, "cart-1", history)
               => /\ inst'[h].version = Len(history)
                  /\ inst'[h].recordedEvents = <<>>
                  /\ objs'[inst'[h].state] =
                       initialState + TotalOf(history)]_vars

C31_Witness ==
  /\ call = Called("action", "made", "none")
  /\ handle["made"].kind = "created"
  /\ Len(handle["made"].recordedAll) = 2
  /\ inst["made"].version = 2
  /\ objs[inst["made"].state] =
       initialState + TotalOf(handle["made"].recordedAll)

\* C32: what state() hands to an action is a value of its own: the evil
\* action's write to it leaves the instance's state as it was, and a value
\* taken before recordThat still shows the state from before the event
C32_StateByValue ==
  [][\A h \in Handles :
       /\ (HEvilAction(h) /\ call'.err = "none")
          => objs'[inst[instanceOf(handle, h)].state] =
               objs[inst[instanceOf(handle, h)].state]
       /\ \A name \in EventNames, payload \in Quantities :
            (HViewAction(h, name, payload) /\ call'.err = "none")
            => call'.seen = call'.before]_vars

(* -------------------- the definition directory ------------------------- *)
\* the definition objects defineAggregateRoot can make, by identity
MaxDefinitions == 2
DefinitionObjects == 1..MaxDefinitions

\* getAggregateDefinitionFound finds a definition under every name
getAggregateDefinitionFound(dir, name) ==
  [err |-> "none", definition |-> dir[name]]

\* aggregateData.ts:34-44  getAggregateDefinition(name): the entry of the
\* name, or the error `Aggregate "<name>" not defined`
getAggregateDefinition(dir, name) ==
  IF dir[name] = NotRegistered
    THEN [err |-> "AggregateNotDefined", definition |-> NotRegistered]
  ELSE [err |-> "none", definition |-> dir[name]]

\* aggregateData.ts:46-58  registerAggregate: aggregateDefinitions.set(name, ..)
registerAggregate(dir, name, definition) == [dir EXCEPT ![name] = definition]

\* the process before any module has defined an aggregate
DirectoryInit ==
  /\ locks = {}
  /\ queue = [k \in Keys |-> <<>>]
  /\ caller = [p \in Callers |->
                 [pc |-> "idle", key |-> NoKey, cur |-> 0,
                  via |-> "direct", late |-> FALSE]]
  /\ counter = [k \in Keys |-> 1]
  /\ runs = [k \in Keys |-> 0]
  /\ arrived = [k \in Keys |-> <<>>]
  /\ op = [o \in Ops |-> IdleOp]
  /\ inst = [h \in Handles |-> NoRecord]
  /\ objs = [h \in Handles |-> initialState]
  /\ events = <<>>
  /\ snapshots = [id \in Ids |-> NoSnapshot]
  /\ withSnapshot = FALSE
  /\ nRecorded = 0
  /\ replay = NoReplay
  /\ publishedFails = FALSE
  /\ handle = [h \in Handles |-> NoHandle]
  /\ call = NoCall
  /\ aggregateDefinitions = [name \in DefinitionNames |-> NotRegistered]
  /\ snapshotWrites = {}

\* aggregate.ts:21-79  defineAggregateRoot(options): a new definition object
\* is registered under options.name and returned
DefineAggregateRoot(name, definition) ==
  /\ \A other \in DefinitionNames : aggregateDefinitions[other] # definition
  /\ aggregateDefinitions' =
       registerAggregate(aggregateDefinitions, name, definition)
  /\ call' = Called("define", "none", "none")
  /\ UNCHANGED <<mvars, op, inst, objs, events, snapshots, withSnapshot,
                 nRecorded, replay, publishedFails, handle, snapshotWrites>>

\* aggregateData.ts:127-199  loadAggregate(name, id, events): the definition
\* is looked up by name (135-136) before definition.create(id) (137)
LoadByName(h, name, id, history) ==
  LET config == getAggregateDefinition(aggregateDefinitions, name)
  IN IF config.err # "none"
       THEN /\ call' = Called("load", "none", config.err)
            /\ UNCHANGED <<handle, inst, objs, nRecorded, hframe>>
     ELSE HLoad(h, name, id, history)

DirectoryNext ==
  \/ \E name \in DefinitionNames, definition \in DefinitionObjects :
       DefineAggregateRoot(name, definition)
  \/ \E name \in DefinitionNames, history \in LoadHistories :
       LoadByName("made", name, "cart-1", history)
  \/ \E name \in EventNames, payload \in Quantities :
       HAction("made", name, payload)
  \/ HPop("made")
  \/ HDispose("made")

DirectorySpec == DirectoryInit /\ [][DirectoryNext]_vars

\* C39: the directory only grows: defining an aggregate under a name that
\* has a definition already is refused with an error, and the entry of a name
\* is never replaced or removed
C39_AppendOnly ==
  [][\A name \in DefinitionNames :
       aggregateDefinitions[name] # NotRegistered
       => /\ aggregateDefinitions'[name] = aggregateDefinitions[name]
          /\ \A definition \in DefinitionObjects :
               DefineAggregateRoot(name, definition) => call'.err # "none"]_vars

\* C40: loadAggregate under a name the directory has no definition for ends
\* with the 'aggregate not defined' error; no handle is made and no record
\* or state object is written
C40_NotDefinedFirst ==
  [][\A name \in DefinitionNames :
       (aggregateDefinitions[name] = NotRegistered /\ call'.name = "load")
       => \A history \in LoadHistories :
            LoadByName("made", name, "cart-1", history)
            => /\ call' = Called("load", "none", "AggregateNotDefined")
               /\ UNCHANGED <<handle, inst, objs, aggregateDefinitions>>]_vars

C40_Witness ==
  /\ call = Called("load", "none", "AggregateNotDefined")
  /\ \E name \in DefinitionNames : aggregateDefinitions[name] = NotRegistered
  /\ \E name \in DefinitionNames : aggregateDefinitions[name] # NotRegistered
  /\ ~ Exists("made")
  /\ inst["made"] = NoRecord

(* ------------- a store whose saveSnapshot is asynchronous -------------- *)
\* the arrange part of CallsInit on a store with snapshots
AsyncInit ==
  /\ CallsInit
  /\ withSnapshot

\* Mutex.ts:143-151  saveEvents has resolved and the store's saveSnapshot is
\* an async function that writes after an await of its own: save calls it
\* without awaiting what it returns, emits 'eventsPublished' and returns
SaveFinishAsync(o, outcome) ==
  /\ op[o].kind = "save" /\ op[o].pc = "saving"
  /\ outcome = "fail" => publishedFails
  /\ LET i == op[o].inst
     IN /\ snapshotWrites' =
             IF withSnapshot
               THEN snapshotWrites \cup
                      {[op |-> o, id |-> op[o].id,
                        snapshot |-> snapshotOf(op[o].recorded,
                                                inst[i].state)]}
               ELSE snapshotWrites
        /\ ReleaseBy(o, [op EXCEPT ![o].pc = "done",
                                   ![o].savedSnapshot = withSnapshot,
                                   ![o].published = TRUE,
                                   ![o].publishedWith = op[o].streamEvents,
                                   ![o].pubFailed = (outcome = "fail"),
                                   ![o].result =
                                      IF publishRejects(outcome)
                                        THEN "PublishError" ELSE "ok"])
  /\ UNCHANGED <<inst, objs, events, snapshots, withSnapshot, nRecorded>>
  /\ UNCHANGED <<caller, counter, runs, arrived, replay, publishedFails,
                 handle, call, aggregateDefinitions>>

\* the promise saveSnapshot returned settles: the store holds the snapshot
SnapshotLands(w) ==
  /\ w \in snapshotWrites
  /\ snapshots' = [snapshots EXCEPT ![w.id] = w.snapshot]
  /\ snapshotWrites' = snapshotWrites \ {w}
  /\ UNCHANGED <<mvars, op, inst, objs, events, withSnapshot, nRecorded,
                 replay, publishedFails, handle, call, aggregateDefinitions>>

\* the steps of operation o after its call, on the asynchronous store
OpStepAsync(o) ==
  \/ SaveEnter(o)
  \/ \E outcome \in {"ok", "fail"} : SaveRecorded(o, outcome)
  \/ SaveChecked(o)
  \/ \E outcome \in {"ok", "fail"} : SaveFinishAsync(o, outcome)
  \/ LoadEnter(o)
  \/ LoadSnapshot(o)
  \/ LoadFinish(o)
  \/ StoreFails(o)

AsyncNext ==
  \/ \E o \in Ops, i \in Insts : SaveCall(o, i)
  \/ \E o \in Ops, id \in Ids, i \in Insts : LoadCall(o, id, i)
  \/ \E o \in Ops : OpStepAsync(o)
  \/ \E w \in snapshotWrites : SnapshotLands(w)

AsyncSpec == AsyncInit /\ [][AsyncNext]_vars

\* C33: a save that has resolved successfully on a store with snapshots, and
\* so has published 'eventsPublished' and released its key, has no snapshot
\* write of its own still in flight
C33_SnapshotInsideSection ==
  \A o \in Ops :
    ( /\ op[o].kind = "save" /\ op[o].pc = "done"
      /\ op[o].result = "ok" /\ op[o].savedSnapshot )
    => \A w \in snapshotWrites : w.op # o
====
